---- MODULE Spec2Model ----
(***************************************************************************)
(* A model of the fresh scraping engine: the BFS crawl of crawler.py, the  *)
(* link extraction it calls (crawler.extract_links, sitemap.normalize_urls)*)
(* the validated, retrying fetch layer of http.py, its shared client       *)
(* (get_client, close), the robots.txt rules and cache                     *)
(* (is_allowed_by_robots) and the per-domain rate limiter of crawler.py    *)
(* (_rate_limit_per_domain), the last three called from several threads.   *)
(*                                                                         *)
(* A URL string is a sequence of tokens: a scheme token ("https:"), the    *)
(* separator "/", and text tokens (a host, a port, a path segment), so     *)
(* "https://a.com/x" is <<"https:", "/", "/", "a.com", "/", "x">>.  String *)
(* concatenation is sequence concatenation; two URLs are the same URL when *)
(* they are the same sequence (the crawler compares the literal strings).  *)
(***************************************************************************)
EXTENDS Integers, Sequences, FiniteSets, TLC

VARIABLES
    \* crawl(): its arguments
    start_url, max_pages, max_depth, respect_robots,
    \* crawl(): its locals
    visited, urls_by_depth, depth, idx, next_urls, pc,
    \* history of the crawl: URLs handed to fetch_page, URLs handed to the
    \* rate limiter, and the last step taken
    fetched, throttled, ev,
    \* the last call made at the fetch client's boundary (FetchSpec)
    call,
    \* http.py: the shared client and its lock, the robots cache and its lock
    _client, _client_lock, _robots_cache, _robots_cache_lock,
    \* crawler.py: the rate-limit table and its lock
    _domain_last_request, _domain_lock,
    \* the threads calling into the module: each one's position and locals
    threads,
    \* time.time(), in ticks
    clock,
    \* the last step of a thread, and what the calls made so far have done
    obs

crawlVars == <<start_url, max_pages, max_depth, respect_robots, visited,
               urls_by_depth, depth, idx, next_urls, pc, fetched, throttled, ev>>
sysVars == <<_client, _client_lock, _robots_cache, _robots_cache_lock,
             _domain_last_request, _domain_lock, threads, clock, obs>>
vars == <<start_url, max_pages, max_depth, respect_robots, visited,
          urls_by_depth, depth, idx, next_urls, pc, fetched, throttled, ev, call,
          _client, _client_lock, _robots_cache, _robots_cache_lock,
          _domain_last_request, _domain_lock, threads, clock, obs>>

(***************************************************************************)
(* Bounds of the model.                                                    *)
(***************************************************************************)
MaxPages == 3
MaxDepth == 2
MaxLinks == 2
MaxRetries == 3

(***************************************************************************)
(* Strings.                                                                *)
(***************************************************************************)
StartsWith(s, p) == Len(s) >= Len(p) /\ SubSeq(s, 1, Len(p)) = p

\* str.rstrip("/")
RECURSIVE rstrip_slash(_)
rstrip_slash(s) ==
    IF s # <<>> /\ s[Len(s)] = "/"
    THEN rstrip_slash(SubSeq(s, 1, Len(s) - 1))
    ELSE s

Range(s) == {s[i] : i \in 1..Len(s)}

(***************************************************************************)
(* urllib.parse.urlparse, on tokens.  ok = FALSE stands for the ValueError *)
(* ("Invalid IPv6 URL") urlparse raises when the authority holds an        *)
(* unmatched bracket.                                                      *)
(***************************************************************************)
SchemeToks == {"http:", "https:", "ftp:"}
PortToks == {":8080"}
\* a host token with an unmatched "[" (as in "https://[")
BracketToks == {"["}

RECURSIVE UntilSlash(_)
UntilSlash(s) ==
    IF s = <<>> \/ Head(s) = "/" THEN <<>>
    ELSE <<Head(s)>> \o UntilSlash(Tail(s))

urlparse(url) ==
    LET hasScheme == url # <<>> /\ Head(url) \in SchemeToks
        scheme    == IF hasScheme THEN Head(url) ELSE ""
        rest      == IF hasScheme THEN Tail(url) ELSE url
        hasNet    == StartsWith(rest, <<"/", "/">>)
        netloc    == IF hasNet THEN UntilSlash(SubSeq(rest, 3, Len(rest))) ELSE <<>>
        path      == IF hasNet THEN SubSeq(rest, 3 + Len(netloc), Len(rest)) ELSE rest
    IN  [ok     |-> Range(netloc) \cap BracketToks = {},
         scheme |-> scheme,
         netloc |-> netloc,
         path   |-> path]

\* an IPv6 literal in its brackets, by the address it holds
Unbracket(tok) ==
    CASE tok = "[::1]"              -> "::1"
      [] tok = "[2606:4700::1111]"  -> "2606:4700::1111"
      [] OTHER                      -> tok

\* ParseResult.hostname: the authority without its port and brackets ("" when
\* there is none)
hostname(netloc) ==
    IF netloc # <<>> /\ netloc[1] \notin PortToks THEN Unbracket(netloc[1]) ELSE ""

\* f"{scheme}://{netloc}": the scheme token carries the ":" of "://"
SchemeSep(scheme) == IF scheme = "" THEN <<":", "/", "/">> ELSE <<scheme, "/", "/">>

(***************************************************************************)
(* http.validate_url.  The hosts of the model, by what ipaddress and the   *)
(* blocked list make of them.                                              *)
(***************************************************************************)
BlockedHosts == {"localhost", "127.0.0.1", "0.0.0.0", "::"}
DotLocalHosts == {"srv.local"}
IPv6Hosts == {"::", "::1", "2606:4700::1111"}
PrivateIPHosts == {"127.0.0.1", "0.0.0.0", "10.0.0.1", "::", "::1"}

_is_private_ip(host) == host \in PrivateIPHosts

\* mutant of validate_url: a host of the allow-list is accepted at once
validate_url_m(url, allowed_domains) ==
    LET parsed == urlparse(url)
        host   == hostname(parsed.netloc)
    IN  IF ~parsed.ok THEN FALSE
        ELSE IF parsed.scheme \notin {"http:", "https:"} THEN FALSE
        ELSE IF allowed_domains # {} THEN parsed.netloc \in allowed_domains
        ELSE ~(\/ host \in BlockedHosts
               \/ host \in DotLocalHosts
               \/ host \in IPv6Hosts
               \/ _is_private_ip(host))

validate_url(url, allowed_domains) ==
    LET parsed == urlparse(url)
        \* lines 71-80: parsed.hostname, or the authority up to its first ":"
        \* (a bare port leaves "")
        host   == hostname(parsed.netloc)
    IN  IF ~parsed.ok THEN FALSE
        ELSE IF parsed.scheme \notin {"http:", "https:"} THEN FALSE
        ELSE IF allowed_domains # {} /\ parsed.netloc \notin allowed_domains THEN FALSE
        ELSE IF \/ host \in BlockedHosts
                \/ host \in DotLocalHosts
                \/ host \in IPv6Hosts
                \/ _is_private_ip(host)
             THEN FALSE
        ELSE TRUE

(***************************************************************************)
(* The fetch client.  One client.get(url) attempt ends in one of:          *)
(*   ok          a response whose raise_for_status() passes (text: body)   *)
(*   timeout     httpx.TimeoutException                                    *)
(*   http_error  any other httpx.HTTPError (transport or status error)     *)
(*   other_error an exception that is no httpx.HTTPError (httpx.InvalidURL,*)
(*               httpx.CookieConflict, the RuntimeError of a closed client)*)
(* A call is given the outcomes of its attempts, in order, as outs.        *)
(* It returns [kind, text, log]: kind is "text", "response", "none" or     *)
(* "raise"; log is what the call did, in order: validate_url calls,        *)
(* client.get calls and time.sleep calls.                                  *)
(***************************************************************************)
Ok(text) == [k |-> "ok", text |-> text]
Timeout == [k |-> "timeout", text |-> <<>>]
HTTPError == [k |-> "http_error", text |-> <<>>]
OtherError == [k |-> "other_error", text |-> <<>>]

LogValidate(url, ok) == [e |-> "validate", url |-> url, n |-> IF ok THEN 1 ELSE 0]
LogGet(url) == [e |-> "get", url |-> url, n |-> 0]
\* n: twice the time slept, in the unit of backoff
LogSleep(url, twice) == [e |-> "sleep", url |-> url, n |-> twice]

\* the number of client.get calls of a log
Gets(log) == Cardinality({i \in 1..Len(log) : log[i].e = "get"})

Pow2(n) == IF n <= 0 THEN 1 ELSE 2 ^ n

\* http.fetch, lines 144-154
fetch(url, allowed_domains, outs) ==
    IF ~validate_url(url, allowed_domains)
    THEN [kind |-> "none", text |-> <<>>, log |-> <<LogValidate(url, FALSE)>>]
    ELSE LET o   == outs[1]
             log == <<LogValidate(url, TRUE), LogGet(url)>>
         IN  CASE o.k = "ok" -> [kind |-> "response", text |-> o.text, log |-> log]
               [] o.k \in {"timeout", "http_error"} ->
                      [kind |-> "none", text |-> <<>>, log |-> log]
               [] OTHER -> [kind |-> "raise", text |-> <<>>, log |-> log]

\* mutant of retry_loop: the loop makes one attempt less, range(max_retries - 1)
RECURSIVE retry_loop_m(_, _, _, _, _, _)
retry_loop_m(url, max_retries, backoff, return_response, outs, attempt) ==
    IF attempt >= max_retries - 1
    THEN [kind |-> "none", text |-> <<>>, log |-> <<>>]
    ELSE LET o == outs[attempt + 1]
         IN  CASE o.k = "ok" ->
                      [kind |-> IF return_response THEN "response" ELSE "text",
                       text |-> o.text, log |-> <<LogGet(url)>>]
               [] o.k \in {"timeout", "http_error"} ->
                      LET rest == retry_loop_m(url, max_retries, backoff,
                                               return_response, outs, attempt + 1)
                      IN  [rest EXCEPT !.log = <<LogGet(url)>> \o @]
               [] OTHER -> [kind |-> "raise", text |-> <<>>, log |-> <<LogGet(url)>>]

\* mutant of retry_loop: a timeout waits as long as any other error
RECURSIVE retry_loop_w(_, _, _, _, _, _)
retry_loop_w(url, max_retries, backoff, return_response, outs, attempt) ==
    IF attempt >= max_retries
    THEN [kind |-> "none", text |-> <<>>, log |-> <<>>]
    ELSE LET o == outs[attempt + 1]
         IN  CASE o.k = "ok" ->
                      [kind |-> IF return_response THEN "response" ELSE "text",
                       text |-> o.text, log |-> <<LogGet(url)>>]
               [] o.k \in {"timeout", "http_error"} ->
                      LET twice == 2 * backoff * Pow2(attempt)
                          slept == IF attempt < max_retries - 1
                                   THEN <<LogSleep(url, twice)>> ELSE <<>>
                          rest  == retry_loop_w(url, max_retries, backoff,
                                                return_response, outs, attempt + 1)
                      IN  [rest EXCEPT !.log = <<LogGet(url)>> \o slept \o @]
               [] OTHER -> [kind |-> "raise", text |-> <<>>, log |-> <<LogGet(url)>>]

\* the loop of fetch_with_retry, lines 184-213, from iteration attempt on
RECURSIVE retry_loop(_, _, _, _, _, _)
retry_loop(url, max_retries, backoff, return_response, outs, attempt) ==
    IF attempt >= max_retries
    THEN [kind |-> "none", text |-> <<>>, log |-> <<>>]
    ELSE LET o == outs[attempt + 1]
         IN  CASE o.k = "ok" ->
                      [kind |-> IF return_response THEN "response" ELSE "text",
                       text |-> o.text, log |-> <<LogGet(url)>>]
               [] o.k \in {"timeout", "http_error"} ->
                      LET twice == IF o.k = "timeout"
                                   THEN backoff * Pow2(attempt)
                                   ELSE 2 * backoff * Pow2(attempt)
                          slept == IF attempt < max_retries - 1
                                   THEN <<LogSleep(url, twice)>> ELSE <<>>
                          rest  == retry_loop(url, max_retries, backoff,
                                              return_response, outs, attempt + 1)
                      IN  [rest EXCEPT !.log = <<LogGet(url)>> \o slept \o @]
               [] OTHER -> [kind |-> "raise", text |-> <<>>, log |-> <<LogGet(url)>>]

\* mutant of fetch_with_retry: the URL is requested without being validated
fetch_with_retry_m(url, max_retries, backoff, return_response, allowed_domains, outs) ==
    retry_loop(url, max_retries, backoff, return_response, outs, 0)

\* http.fetch_with_retry, lines 179-213
fetch_with_retry(url, max_retries, backoff, return_response, allowed_domains, outs) ==
    IF ~validate_url(url, allowed_domains)
    THEN [kind |-> "none", text |-> <<>>, log |-> <<LogValidate(url, FALSE)>>]
    ELSE LET r == retry_loop(url, max_retries, backoff, return_response, outs, 0)
         IN  [r EXCEPT !.log = <<LogValidate(url, TRUE)>> \o @]

\* http.fetch_robots_txt, lines 254-259
fetch_robots_txt(base_url, outs) ==
    LET parsed     == urlparse(base_url)
        robots_url == SchemeSep(parsed.scheme) \o parsed.netloc \o <<"/", "robots.txt">>
        result     == fetch_with_retry(robots_url, 1, 1, FALSE, {}, outs)
    IN  IF ~parsed.ok THEN [kind |-> "raise", text |-> <<>>, log |-> <<>>]
        ELSE IF result.kind = "text" THEN result
        ELSE IF result.kind = "raise" THEN result
        ELSE [result EXCEPT !.kind = "none", !.text = <<>>]

\* crawler.fetch_page, lines 92-95
fetch_page(url, outs) ==
    LET result == fetch_with_retry(url, 3, 1, FALSE, {}, outs)
    IN  IF result.kind = "text" THEN result
        ELSE IF result.kind = "raise" THEN result
        ELSE [result EXCEPT !.kind = "none", !.text = <<>>]

(***************************************************************************)
(* Links.  An HTML page is the sequence of the href values of its <a> tags *)
(* (what BeautifulSoup's find_all("a", href=True) yields, lines 110-117).  *)
(***************************************************************************)
\* sitemap.normalize_urls, lines 133-161, one url
normalize_url(url, base_url) ==
    LET base == rstrip_slash(base_url)
    IN  IF StartsWith(url, <<"http:", "/", "/">>) \/ StartsWith(url, <<"https:", "/", "/">>)
        THEN url
        ELSE IF StartsWith(url, <<"/", "/">>)
        THEN <<"https:">> \o url
        ELSE IF StartsWith(url, <<"/">>)
        THEN SchemeSep(urlparse(base).scheme) \o urlparse(base).netloc \o url
        ELSE base \o <<"/">> \o url

RECURSIVE normalize_urls(_, _)
normalize_urls(urls, base_url) ==
    IF urls = <<>> THEN <<>>
    ELSE IF Head(urls) = <<>>
         THEN normalize_urls(Tail(urls), base_url)
         ELSE <<normalize_url(Head(urls), base_url)>> \o normalize_urls(Tail(urls), base_url)

\* whether extract_links raises: an urlparse of lines 123, 128 or of
\* normalize_urls line 154 raises ValueError
extract_links_raises(html, base_url) ==
    \/ ~urlparse(base_url).ok
    \/ \E i \in 1..Len(html) :
          /\ html[i] # <<>>
          /\ ~urlparse(normalize_url(html[i], base_url)).ok

\* mutant of same_domain: the links are not filtered
same_domain_m(normalized, domain) == normalized

RECURSIVE same_domain(_, _)
\* lines 126-130
same_domain(normalized, domain) ==
    IF normalized = <<>> THEN <<>>
    ELSE IF urlparse(Head(normalized)).netloc = domain
         THEN <<Head(normalized)>> \o same_domain(Tail(normalized), domain)
         ELSE same_domain(Tail(normalized), domain)

\* crawler.extract_links, lines 110-132 (when it does not raise)
extract_links(html, base_url) ==
    same_domain(normalize_urls(html, base_url), urlparse(base_url).netloc)

(***************************************************************************)
(* The environment of a crawl: the start URLs tried, the hrefs a page may  *)
(* hold, the pages a server may answer with, and the outcomes of the       *)
(* attempts of one fetch_page call.                                        *)
(***************************************************************************)
StartUrls ==
    { <<"https:", "/", "/", "a.com">>,
      <<"http:", "/", "/", "localhost">> }

Hrefs ==
    { <<"/", "x">>,                                  \* absolute path
      <<"y">>,                                       \* relative path
      <<"https:", "/", "/", "b.com", "/", "z">>,     \* absolute, other host
      <<"https:", "/", "/", "[">> }                  \* unmatched bracket

SeqsUpTo(S, n) == UNION {[1..k -> S] : k \in 0..n}

Htmls == SeqsUpTo(Hrefs, MaxLinks)

\* the outcomes of the attempts of one fetch_page call that ends with a
\* response of body html: at once, or after one or two failed attempts
OkScripts(html) ==
    { <<Ok(html)>>,
      <<Timeout, Ok(html)>>,
      <<HTTPError, Timeout, Ok(html)>> }

\* ... and of one that ends without a response: every attempt failing, or
\* an attempt raising an exception that is no httpx.HTTPError
FailScripts ==
    { <<HTTPError, HTTPError, Timeout>>,
      <<Timeout, Timeout, HTTPError>>,
      <<OtherError>>,
      <<Timeout, HTTPError, OtherError>> }

(***************************************************************************)
(* crawler.crawl, lines 155-201.                                           *)
(***************************************************************************)
\* mutant of CapReached: the comparison is strict
CapReached_m(v, cap) == Cardinality(v) > cap

\* lines 166, 197: len(visited) >= max_pages
CapReached(v, cap) == Cardinality(v) >= cap

\* mutant of AlreadyVisited: the revisit check is lost
AlreadyVisited_m(url, v) == FALSE

\* line 169: url in visited
AlreadyVisited(url, v) == url \in v

\* mutant of DepthRange: one level too many
DepthRange_m(limit) == 0..(limit + 1)

\* line 158: range(max_depth + 1)
DepthRange(limit) == 0..limit

\* mutant of Admitted: the cap is not looked at when a link is appended
RECURSIVE Admitted_m(_, _, _)
Admitted_m(links, v, cap) ==
    IF links = <<>> THEN <<>>
    ELSE IF Head(links) \notin v
         THEN <<Head(links)>> \o Admitted_m(Tail(links), v, cap)
         ELSE Admitted_m(Tail(links), v, cap)

\* lines 186-188: the links of one page appended to next_urls
RECURSIVE Admitted(_, _, _)
Admitted(links, v, cap) ==
    IF links = <<>> THEN <<>>
    ELSE IF Head(links) \notin v /\ Cardinality(v) < cap
         THEN <<Head(links)>> \o Admitted(Tail(links), v, cap)
         ELSE Admitted(Tail(links), v, cap)

(***************************************************************************)
(* The threads that call into http.py and crawler.py, and the module-level *)
(* state they share.  A thread is idle or inside one call; its record      *)
(* holds its position in the call and the call's arguments and locals.     *)
(***************************************************************************)
Threads == {"t1", "t2", "t3"}

\* the bounds of time: the clock advances at most MaxClock ticks, a delay
\* is at most MaxDelay ticks, and the TTLs and caps of the two tables are
\* scaled to TTLTicks ticks and MaxCap entries
MaxClock == 2
MaxDelay == 2
TTLTicks == 1
MaxCap == 2
MaxCloses == 2

\* http.py lines 265-266, crawler.py lines 18-19 (300 s and 3600 s, 100 and
\* 100 entries in the source)
ROBOTS_CACHE_TTL == TTLTicks
ROBOTS_CACHE_MAX_SIZE == MaxCap
RATE_LIMIT_TTL == TTLTicks + 1
RATE_LIMIT_MAX_DOMAINS == MaxCap

\* time.time() when the first call is made: later than any delay or TTL
\* after the epoch
Epoch == MaxDelay + RATE_LIMIT_TTL + 1

\* _client = None (http.py line 24); a constructed client is the number of
\* its construction, 1, 2, ...
NoClient == 0

\* a threading.Lock: free, or held by a thread
Free == "free"

IdleThread ==
    [pc |-> "idle", url |-> <<>>, user_agent |-> "", delay |-> 0, now |-> 0,
     disallowed_paths |-> {}, started |-> 0, wake |-> 0]

NoTable == <<>>

\* the module-level state after import
SysInit ==
    /\ _client = NoClient
    /\ _client_lock = Free
    /\ _robots_cache = NoTable
    /\ _robots_cache_lock = Free
    /\ _domain_last_request = NoTable
    /\ _domain_lock = Free
    /\ threads = [t \in Threads |-> IdleThread]
    /\ clock = Epoch

NoObs == [op |-> "none"]

At(t, where) == threads[t].pc = where
Goto(t, where) == [threads EXCEPT ![t].pc = where]

Event(op, url) == [op |-> op, url |-> url]

NoCall == [op |-> "none", url |-> <<>>, allowed_domains |-> {}, max_retries |-> 0,
           backoff |-> 0, return_response |-> FALSE, outs |-> <<>>,
           kind |-> "none", text |-> <<>>, log |-> <<>>]

current_urls == urls_by_depth[depth]
url_at_idx == current_urls[idx]

Init ==
    /\ start_url \in StartUrls
    /\ max_pages \in 0..MaxPages
    /\ max_depth \in 0..MaxDepth
    /\ respect_robots \in BOOLEAN
    /\ visited = {}
    /\ urls_by_depth = [d \in {0} |-> <<start_url>>]
    /\ depth = 0
    /\ idx = 1
    /\ next_urls = <<>>
    /\ pc = "level"
    /\ fetched = <<>>
    /\ throttled = <<>>
    /\ ev = Event("call", start_url)
    /\ call = NoCall
    /\ SysInit
    /\ obs = NoObs

\* line 158: the range of depths is exhausted
LevelsExhausted ==
    /\ pc = "level"
    /\ depth \notin DepthRange(max_depth)
    /\ pc' = "done"
    /\ ev' = Event("levels_exhausted", <<>>)
    /\ UNCHANGED <<start_url, max_pages, max_depth, respect_robots, visited,
                   urls_by_depth, depth, idx, next_urls, fetched, throttled, call, sysVars>>

\* lines 159-160: no URL was queued for this depth
LevelMissing ==
    /\ pc = "level"
    /\ depth \in DepthRange(max_depth)
    /\ depth \notin DOMAIN urls_by_depth
    /\ pc' = "done"
    /\ ev' = Event("level_missing", <<>>)
    /\ UNCHANGED <<start_url, max_pages, max_depth, respect_robots, visited,
                   urls_by_depth, depth, idx, next_urls, fetched, throttled, call, sysVars>>

\* lines 162-163
LevelStart ==
    /\ pc = "level"
    /\ depth \in DepthRange(max_depth)
    /\ depth \in DOMAIN urls_by_depth
    /\ next_urls' = <<>>
    /\ idx' = 1
    /\ pc' = "url"
    /\ ev' = Event("level_start", <<>>)
    /\ UNCHANGED <<start_url, max_pages, max_depth, respect_robots, visited,
                   urls_by_depth, depth, fetched, throttled, call, sysVars>>

\* line 165: the level has no further URL
UrlsExhausted ==
    /\ pc = "url"
    /\ idx > Len(current_urls)
    /\ pc' = "level_end"
    /\ ev' = Event("urls_exhausted", <<>>)
    /\ UNCHANGED <<start_url, max_pages, max_depth, respect_robots, visited,
                   urls_by_depth, depth, idx, next_urls, fetched, throttled, call, sysVars>>

\* lines 166-167
UrlCapBreak ==
    /\ pc = "url"
    /\ idx <= Len(current_urls)
    /\ CapReached(visited, max_pages)
    /\ pc' = "level_end"
    /\ ev' = Event("cap_break", url_at_idx)
    /\ UNCHANGED <<start_url, max_pages, max_depth, respect_robots, visited,
                   urls_by_depth, depth, idx, next_urls, fetched, throttled, call, sysVars>>

\* lines 169-170
UrlSkipVisited ==
    /\ pc = "url"
    /\ idx <= Len(current_urls)
    /\ ~CapReached(visited, max_pages)
    /\ AlreadyVisited(url_at_idx, visited)
    /\ idx' = idx + 1
    /\ ev' = Event("skip_visited", url_at_idx)
    /\ UNCHANGED <<start_url, max_pages, max_depth, respect_robots, visited,
                   urls_by_depth, depth, next_urls, pc, fetched, throttled, call, sysVars>>

\* a URL of the level reaches the robots check of line 173
AtRobotsCheck ==
    /\ pc = "url"
    /\ idx <= Len(current_urls)
    /\ ~CapReached(visited, max_pages)
    /\ ~AlreadyVisited(url_at_idx, visited)

\* mutant of UrlSkipRobots: the URL is marked visited before the robots check
UrlSkipRobots_m ==
    /\ AtRobotsCheck
    /\ respect_robots
    /\ visited' = visited \cup {url_at_idx}
    /\ idx' = idx + 1
    /\ ev' = Event("skip_robots", url_at_idx)
    /\ UNCHANGED <<start_url, max_pages, max_depth, respect_robots,
                   urls_by_depth, depth, next_urls, pc, fetched, throttled, call, sysVars>>

\* lines 173-175: is_allowed_by_robots(url) is False
UrlSkipRobots ==
    /\ AtRobotsCheck
    /\ respect_robots
    /\ idx' = idx + 1
    /\ ev' = Event("skip_robots", url_at_idx)
    /\ UNCHANGED <<start_url, max_pages, max_depth, respect_robots, visited,
                   urls_by_depth, depth, next_urls, pc, fetched, throttled, call, sysVars>>

\* line 173: is_allowed_by_robots(url) raises (its robots.txt fetch raised)
UrlRobotsRaise ==
    /\ AtRobotsCheck
    /\ respect_robots
    /\ pc' = "raised"
    /\ ev' = Event("robots_raise", url_at_idx)
    /\ UNCHANGED <<start_url, max_pages, max_depth, respect_robots, visited,
                   urls_by_depth, depth, idx, next_urls, fetched, throttled, call, sysVars>>

\* what fetch_page(url) may return (or raise), over what the server answers
PageResults(url) ==
    LET results == {fetch_page(url, outs) : outs \in FailScripts}
                   \cup UNION {{fetch_page(url, outs) : outs \in OkScripts(html)} :
                                 html \in Htmls}
    IN  {[kind |-> r.kind, text |-> r.text] : r \in results}

\* lines 177-192, for the result page of fetch_page(url)
Visit(url, page) ==
    LET visited1 == visited \cup {url}
    IN  /\ visited' = visited1
        /\ fetched' = Append(fetched, url)
        /\ CASE page.kind = "raise" ->
                   \* the exception of client.get leaves crawl
                   /\ pc' = "raised"
                   /\ ev' = Event("fetch_raise", url)
                   /\ UNCHANGED <<idx, next_urls, throttled>>
             [] page.kind = "none" ->
                   \* lines 181-182
                   /\ idx' = idx + 1
                   /\ ev' = Event("fetch_none", url)
                   /\ UNCHANGED <<pc, next_urls, throttled>>
             [] page.kind = "text" /\ extract_links_raises(page.text, url) ->
                   \* line 184: the ValueError of urlparse leaves crawl
                   /\ pc' = "raised"
                   /\ ev' = Event("extract_raise", url)
                   /\ UNCHANGED <<idx, next_urls, throttled>>
             [] OTHER ->
                   \* lines 184-192
                   /\ next_urls' = next_urls \o
                          Admitted(extract_links(page.text, url), visited1, max_pages)
                   /\ throttled' = IF Cardinality(visited1) < max_pages
                                   THEN Append(throttled, url) ELSE throttled
                   /\ idx' = idx + 1
                   /\ ev' = Event("fetch_ok", url)
                   /\ UNCHANGED pc

\* lines 177-192: the URL is allowed (or robots are not respected); it is
\* marked visited and fetched
UrlVisit ==
    /\ AtRobotsCheck
    /\ \E page \in PageResults(url_at_idx) : Visit(url_at_idx, page)
    /\ UNCHANGED <<start_url, max_pages, max_depth, respect_robots,
                   urls_by_depth, depth, call, sysVars>>

\* lines 194-198
LevelEnd ==
    /\ pc = "level_end"
    /\ urls_by_depth' =
          IF next_urls # <<>>
          THEN [d \in DOMAIN urls_by_depth \cup {depth + 1} |->
                   IF d = depth + 1 THEN next_urls ELSE urls_by_depth[d]]
          ELSE urls_by_depth
    /\ IF CapReached(visited, max_pages)
       THEN /\ pc' = "done"
            /\ ev' = Event("cap_stop", <<>>)
            /\ UNCHANGED depth
       ELSE /\ pc' = "level"
            /\ depth' = depth + 1
            /\ ev' = Event("level_end", <<>>)
    /\ UNCHANGED <<start_url, max_pages, max_depth, respect_robots, visited,
                   idx, next_urls, fetched, throttled, call, sysVars>>

Next ==
    \/ LevelsExhausted
    \/ LevelMissing
    \/ LevelStart
    \/ UrlsExhausted
    \/ UrlCapBreak
    \/ UrlSkipVisited
    \/ UrlSkipRobots
    \/ UrlRobotsRaise
    \/ UrlVisit
    \/ LevelEnd

Spec == Init /\ [][Next]_vars

(***************************************************************************)
(* The fetch client called on its own: a call is drawn with its arguments  *)
(* and the outcomes its attempts will meet, and then made.                 *)
(***************************************************************************)
FetchUrls ==
    { <<"https:", "/", "/", "a.com", "/", "x">>,
      <<"https:", "/", "/", "b.com">>,
      <<"http:", "/", "/", "localhost", ":8080">>,
      <<"https:", "/", "/", "10.0.0.1", "/", "x">>,
      <<"ftp:", "/", "/", "a.com", "/", "x">>,
      <<"https:", "/", "/", "[">> }

AllowLists == { {}, {<<"a.com">>} }

Bodies == { <<>>, << <<"/", "x">> >> }

Outcomes == {Ok(b) : b \in Bodies} \cup {Timeout, HTTPError, OtherError}

Pending(op, url, allowed, retries, backoff, rr, outs) ==
    [op |-> op, url |-> url, allowed_domains |-> allowed, max_retries |-> retries,
     backoff |-> backoff, return_response |-> rr, outs |-> outs,
     kind |-> "pending", text |-> <<>>, log |-> <<>>]

\* the calls drawn: fetch(url, allowed_domains), fetch_robots_txt(base_url)
\* and fetch_with_retry(url, max_retries, backoff, return_response,
\* allowed_domains)
IsPendingCall(c) ==
    \/ \E u \in FetchUrls, a \in AllowLists, o \in [1..1 -> Outcomes] :
          c = Pending("fetch", u, a, 1, 1, TRUE, o)
    \/ \E u \in FetchUrls, o \in [1..1 -> Outcomes] :
          c = Pending("fetch_robots_txt", u, {}, 1, 1, FALSE, o)
    \/ \E n \in 0..MaxRetries, u \in FetchUrls, a \in AllowLists, b \in 1..2,
          rr \in BOOLEAN, o \in [1..MaxRetries -> Outcomes] :
          c = Pending("fetch_with_retry", u, a, n, b, rr, o)

Returned(r) == [call EXCEPT !.kind = r.kind, !.text = r.text, !.log = r.log]

FetchInit ==
    /\ IsPendingCall(call)
    /\ start_url = <<>>
    /\ max_pages = 0
    /\ max_depth = 0
    /\ respect_robots = FALSE
    /\ visited = {}
    /\ urls_by_depth = [d \in {0} |-> <<>>]
    /\ depth = 0
    /\ idx = 1
    /\ next_urls = <<>>
    /\ pc = "idle"
    /\ fetched = <<>>
    /\ throttled = <<>>
    /\ ev = Event("idle", <<>>)
    /\ SysInit
    /\ obs = NoObs

CallFetch ==
    /\ call.op = "fetch"
    /\ call.kind = "pending"
    /\ call' = Returned(fetch(call.url, call.allowed_domains, call.outs))
    /\ UNCHANGED <<crawlVars, sysVars>>

CallFetchWithRetry ==
    /\ call.op = "fetch_with_retry"
    /\ call.kind = "pending"
    /\ call' = Returned(fetch_with_retry(call.url, call.max_retries, call.backoff,
                            call.return_response, call.allowed_domains, call.outs))
    /\ UNCHANGED <<crawlVars, sysVars>>

CallFetchRobotsTxt ==
    /\ call.op = "fetch_robots_txt"
    /\ call.kind = "pending"
    /\ call' = Returned(fetch_robots_txt(call.url, call.outs))
    /\ UNCHANGED <<crawlVars, sysVars>>

FetchNext ==
    \/ CallFetch
    \/ CallFetchWithRetry
    \/ CallFetchRobotsTxt

FetchSpec == FetchInit /\ [][FetchNext]_vars

\* a crawl that is never stopped from outside: its next step is taken
FairSpec == Spec /\ WF_vars(Next)

(***************************************************************************)
(* The shared client of http.py: get_client (lines 113-125) and close      *)
(* (lines 216-222), statement by statement, called from any thread.        *)
(***************************************************************************)
\* the crawl variables of a specification in which no crawl runs
CrawlIdle ==
    /\ start_url = <<>>
    /\ max_pages = 0
    /\ max_depth = 0
    /\ respect_robots = FALSE
    /\ visited = {}
    /\ urls_by_depth = [d \in {0} |-> <<>>]
    /\ depth = 0
    /\ idx = 1
    /\ next_urls = <<>>
    /\ pc = "idle"
    /\ fetched = <<>>
    /\ throttled = <<>>
    /\ ev = Event("idle", <<>>)
    /\ call = NoCall

\* the clients a run may construct
ClientIds == 1..(Cardinality(Threads) * (MaxCloses + 1))

\* what the calls made so far have done: the number of clients constructed,
\* the number of close() calls begun, how often each client was closed, and
\* the values get_client has returned
ClientInit ==
    /\ CrawlIdle
    /\ SysInit
    /\ obs = [op |-> "none", thread |-> "", constructed |-> 0, close_calls |-> 0,
              closed |-> [i \in ClientIds |-> 0], returned |-> {}]

ClientFrame ==
    UNCHANGED <<crawlVars, call, _robots_cache, _robots_cache_lock,
                _domain_last_request, _domain_lock, clock>>

\* line 116: if _client is None
GetClientCheck(t) ==
    /\ At(t, "idle")
    /\ threads' = Goto(t, IF _client = NoClient THEN "gc_lock" ELSE "gc_return")
    /\ obs' = [obs EXCEPT !.op = "gc_check", !.thread = t]
    /\ UNCHANGED <<_client, _client_lock>>
    /\ ClientFrame

\* line 117: with _client_lock
GetClientAcquire(t) ==
    /\ At(t, "gc_lock")
    /\ _client_lock = Free
    /\ _client_lock' = t
    /\ threads' = Goto(t, "gc_locked")
    /\ obs' = [obs EXCEPT !.op = "gc_acquire", !.thread = t]
    /\ UNCHANGED _client
    /\ ClientFrame

\* mutant of SecondCheck: the check under the lock is lost
SecondCheck_m(c) == TRUE

\* line 119: if _client is None, under the lock
SecondCheck(c) == c = NoClient

\* lines 119-124, and the release of the lock
GetClientConstruct(t) ==
    /\ At(t, "gc_locked")
    /\ IF SecondCheck(_client)
       THEN /\ _client' = obs.constructed + 1
            /\ obs' = [obs EXCEPT !.op = "gc_construct", !.thread = t,
                                  !.constructed = @ + 1]
       ELSE /\ obs' = [obs EXCEPT !.op = "gc_keep", !.thread = t]
            /\ UNCHANGED _client
    /\ _client_lock' = Free
    /\ threads' = Goto(t, "gc_return")
    /\ ClientFrame

\* line 125: return _client
GetClientReturn(t) ==
    /\ At(t, "gc_return")
    /\ obs' = [obs EXCEPT !.op = "gc_return", !.thread = t,
                          !.returned = @ \cup {_client}]
    /\ threads' = Goto(t, "idle")
    /\ UNCHANGED <<_client, _client_lock>>
    /\ ClientFrame

\* close() is called (by a thread, or by atexit, line 398)
CloseCall(t) ==
    /\ At(t, "idle")
    /\ obs.close_calls < MaxCloses
    /\ threads' = Goto(t, "cl_lock")
    /\ obs' = [obs EXCEPT !.op = "cl_call", !.thread = t, !.close_calls = @ + 1]
    /\ UNCHANGED <<_client, _client_lock>>
    /\ ClientFrame

\* line 219: with _client_lock
CloseAcquire(t) ==
    /\ At(t, "cl_lock")
    /\ _client_lock = Free
    /\ _client_lock' = t
    /\ threads' = Goto(t, "cl_locked")
    /\ obs' = [obs EXCEPT !.op = "cl_acquire", !.thread = t]
    /\ UNCHANGED _client
    /\ ClientFrame

\* mutant of ClientAfterClose: the closed client stays the shared client
ClientAfterClose_m(c) == c

\* line 222: _client = None
ClientAfterClose(c) == NoClient

\* lines 220-222, and the release of the lock
CloseBody(t) ==
    /\ At(t, "cl_locked")
    /\ IF _client # NoClient
       THEN /\ obs' = [obs EXCEPT !.op = "cl_close", !.thread = t,
                                  !.closed[_client] = @ + 1]
            /\ _client' = ClientAfterClose(_client)
       ELSE /\ obs' = [obs EXCEPT !.op = "cl_noop", !.thread = t]
            /\ UNCHANGED _client
    /\ _client_lock' = Free
    /\ threads' = Goto(t, "idle")
    /\ ClientFrame

ClientNext ==
    \/ \E t \in Threads : GetClientCheck(t)
    \/ \E t \in Threads : GetClientAcquire(t)
    \/ \E t \in Threads : GetClientConstruct(t)
    \/ \E t \in Threads : GetClientReturn(t)
    \/ \E t \in Threads : CloseCall(t)
    \/ \E t \in Threads : CloseAcquire(t)
    \/ \E t \in Threads : CloseBody(t)

ClientSpec == ClientInit /\ [][ClientNext]_vars

(***************************************************************************)
(* robots.txt.  The text is a sequence of lines (str.splitlines); a        *)
(* stripped line is a sequence of tokens: its directive with the colon     *)
(* ("User-agent:", "Disallow:", ...) or "#", and then its value, an agent  *)
(* name or the characters of a path pattern.  A path is the sequence of    *)
(* its characters.                                                         *)
(***************************************************************************)
\* str.lower(), on the tokens that differ from their lower case
Lower(tok) ==
    CASE tok = "User-agent:" -> "user-agent:"
      [] tok = "Disallow:"   -> "disallow:"
      [] tok = "Allow:"      -> "allow:"
      [] tok = "MyBot"       -> "mybot"
      [] OTHER               -> tok

\* mutant of InTargetSection: every group is taken for the requested agent
InTargetSection_m(agent, user_agent_lower) == TRUE

\* line 344
InTargetSection(agent, user_agent_lower) ==
    agent = user_agent_lower \/ agent = "*"

\* mutant of parse_lines: a directive other than User-agent and Disallow
\* leaves the scope as it is
RECURSIVE parse_lines_m(_, _, _, _)
parse_lines_m(lines, user_agent_lower, in_target_section, disallowed_paths) ==
    IF lines = <<>> THEN disallowed_paths
    ELSE LET line == Head(lines)
             rest == Tail(lines)
         IN  IF line = <<>> \/ Head(line) = "#"
             THEN parse_lines_m(rest, user_agent_lower, in_target_section,
                                disallowed_paths)
             ELSE IF Lower(Head(line)) = "user-agent:"
             THEN LET agent == IF Len(line) > 1 THEN Lower(line[2]) ELSE ""
                  IN  parse_lines_m(rest, user_agent_lower,
                                    InTargetSection(agent, user_agent_lower),
                                    disallowed_paths)
             ELSE IF Lower(Head(line)) = "disallow:" /\ in_target_section
             THEN parse_lines_m(rest, user_agent_lower, in_target_section,
                                IF Tail(line) # <<>>
                                THEN disallowed_paths \cup {Tail(line)}
                                ELSE disallowed_paths)
             ELSE parse_lines_m(rest, user_agent_lower, in_target_section,
                                disallowed_paths)

\* lines 335-354: the loop over the lines, from the state (in_target_section,
\* disallowed_paths) on
RECURSIVE parse_lines(_, _, _, _)
parse_lines(lines, user_agent_lower, in_target_section, disallowed_paths) ==
    IF lines = <<>> THEN disallowed_paths
    ELSE LET line == Head(lines)
             rest == Tail(lines)
         IN  IF line = <<>> \/ Head(line) = "#"
             THEN parse_lines(rest, user_agent_lower, in_target_section,
                              disallowed_paths)
             ELSE IF Lower(Head(line)) = "user-agent:"
             THEN LET agent == IF Len(line) > 1 THEN Lower(line[2]) ELSE ""
                  IN  parse_lines(rest, user_agent_lower,
                                  InTargetSection(agent, user_agent_lower),
                                  disallowed_paths)
             ELSE IF Lower(Head(line)) = "disallow:" /\ in_target_section
             THEN parse_lines(rest, user_agent_lower, in_target_section,
                              IF Tail(line) # <<>>
                              THEN disallowed_paths \cup {Tail(line)}
                              ELSE disallowed_paths)
             ELSE parse_lines(rest, user_agent_lower, FALSE, disallowed_paths)

\* lines 330-354: the disallowed paths of a fetched robots.txt
parse_robots(robots_content, user_agent) ==
    parse_lines(robots_content, Lower(user_agent), FALSE, {})

\* re.match("^" + pattern.replace("*", ".*"), path), line 391: "*" stands
\* for any run of characters and "." for any one character
RECURSIVE re_match(_, _)
re_match(pattern, path) ==
    IF pattern = <<>> THEN TRUE
    ELSE IF Head(pattern) = "$"
    THEN \* "$" inside the expression holds only at the end of the path
         path = <<>> /\ re_match(Tail(pattern), path)
    ELSE IF Head(pattern) = "*"
    THEN \E k \in 0..Len(path) :
            re_match(Tail(pattern), SubSeq(path, k + 1, Len(path)))
    ELSE IF path = <<>> THEN FALSE
    ELSE /\ Head(pattern) \in {".", Head(path)}
         /\ re_match(Tail(pattern), Tail(path))

\* http._matches_robots_pattern, lines 379-394
_matches_robots_pattern(path, pattern) ==
    IF pattern = <<>> THEN FALSE
    ELSE IF pattern[Len(pattern)] = "$"
    THEN path = SubSeq(pattern, 1, Len(pattern) - 1)
    ELSE IF "*" \in Range(pattern)
    THEN re_match(pattern, path)
    ELSE StartsWith(path, pattern)

\* lines 318-322 and 361-366: the answer for a path, given the rule set
path_allowed(path, disallowed_paths) ==
    \A pattern \in disallowed_paths : ~_matches_robots_pattern(path, pattern)

\* line 302: parsed.path or "/"
robots_path(url) ==
    IF urlparse(url).path = <<>> THEN <<"/">> ELSE urlparse(url).path

(***************************************************************************)
(* The rules of a robots.txt on their own: a text, a URL and a user agent  *)
(* are drawn, and lines 330-366 are applied to them.                       *)
(***************************************************************************)
MaxLines == 3

UserAgentLine(agent) == <<"User-agent:", agent>>
DisallowLine(pattern) == <<"Disallow:">> \o pattern

Patterns ==
    { <<"/", "a">>, <<"/", "a", "b">>, <<"/", "a", "$">>, <<"/", "*", "b">>, <<>> }

RobotsLines ==
    { UserAgentLine("*"), UserAgentLine("MyBot"), UserAgentLine("other"),
      <<"user-agent:", "*">>, <<"Allow:", "/">>, <<"#", "x">>, <<>> }
    \cup {DisallowLine(p) : p \in Patterns}

RobotsTexts == SeqsUpTo(RobotsLines, MaxLines)

RulesUrls ==
    { <<"https:", "/", "/", "a.com">>,
      <<"https:", "/", "/", "a.com", "/", "a">>,
      <<"https:", "/", "/", "a.com", "/", "a", "b">>,
      <<"https:", "/", "/", "a.com", "/", "b">> }

UserAgents == {"*", "mybot", "MyBot"}

RulesInit ==
    /\ \E text \in RobotsTexts, u \in RulesUrls, ua \in UserAgents :
          call = [op |-> "robots_rules", url |-> u, user_agent |-> ua,
                  robots_content |-> text, kind |-> "pending",
                  disallowed_paths |-> {}, allowed |-> TRUE]
    /\ start_url = <<>>
    /\ max_pages = 0
    /\ max_depth = 0
    /\ respect_robots = FALSE
    /\ visited = {}
    /\ urls_by_depth = [d \in {0} |-> <<>>]
    /\ depth = 0
    /\ idx = 1
    /\ next_urls = <<>>
    /\ pc = "idle"
    /\ fetched = <<>>
    /\ throttled = <<>>
    /\ ev = Event("idle", <<>>)
    /\ SysInit
    /\ obs = NoObs

\* lines 330-366 on the text fetched
ApplyRules ==
    /\ call.op = "robots_rules"
    /\ call.kind = "pending"
    /\ LET disallowed_paths == parse_robots(call.robots_content, call.user_agent)
       IN  call' = [call EXCEPT
                       !.kind = "done",
                       !.disallowed_paths = disallowed_paths,
                       !.allowed = path_allowed(robots_path(call.url), disallowed_paths)]
    /\ UNCHANGED <<crawlVars, sysVars>>

RulesNext == ApplyRules

RulesSpec == RulesInit /\ [][RulesNext]_vars

(***************************************************************************)
(* The two tables, _robots_cache and _domain_last_request.  A dict is the  *)
(* sequence of its entries in insertion order; an entry is a record with   *)
(* its key (domain) and its timestamp (ts).                                *)
(***************************************************************************)
Domains(table) == {table[i].domain : i \in 1..Len(table)}

\* table[domain]
Lookup(table, domain) ==
    table[CHOOSE i \in 1..Len(table) : table[i].domain = domain]

\* del table[domain], for every domain of the set
Remove(table, domains) == SelectSeq(table, LAMBDA e : e.domain \notin domains)

\* table[entry.domain] = entry: a new key goes last, a known key keeps its
\* place
Store(table, entry) ==
    IF entry.domain \in Domains(table)
    THEN [i \in 1..Len(table) |->
             IF table[i].domain = entry.domain THEN entry ELSE table[i]]
    ELSE Append(table, entry)

\* mutant of Oldest: the k newest keys
RECURSIVE Oldest_m(_, _)
Oldest_m(table, k) ==
    IF k <= 0 \/ table = <<>> THEN {}
    ELSE LET i == CHOOSE i \in 1..Len(table) :
                     \A j \in 1..Len(table) :
                        \/ table[j].ts < table[i].ts
                        \/ table[j].ts = table[i].ts /\ j >= i
         IN  {table[i].domain} \cup Oldest_m(Remove(table, {table[i].domain}), k - 1)

\* sorted(table.keys(), key=timestamp)[:k]: the k oldest keys, equal
\* timestamps in table order
RECURSIVE Oldest(_, _)
Oldest(table, k) ==
    IF k <= 0 \/ table = <<>> THEN {}
    ELSE LET i == CHOOSE i \in 1..Len(table) :
                     \A j \in 1..Len(table) :
                        \/ table[j].ts > table[i].ts
                        \/ table[j].ts = table[i].ts /\ j >= i
         IN  {table[i].domain} \cup Oldest(Remove(table, {table[i].domain}), k - 1)

\* the body the two cleanups share: entries older than the TTL go, then the
\* oldest of what is left over the cap
cleanup_table(table, now, ttl, cap) ==
    LET kept == SelectSeq(table, LAMBDA e : ~(now - e.ts > ttl))
    IN  IF Len(kept) > cap
        THEN Remove(kept, Oldest(kept, Len(kept) - cap))
        ELSE kept

\* http._cleanup_robots_cache, lines 271-287
_cleanup_robots_cache(cache, now) ==
    cleanup_table(cache, now, ROBOTS_CACHE_TTL, ROBOTS_CACHE_MAX_SIZE)

\* crawler._cleanup_rate_limit_dict, lines 29-46
_cleanup_rate_limit_dict(table, now) ==
    cleanup_table(table, now, RATE_LIMIT_TTL, RATE_LIMIT_MAX_DOMAINS)

\* time passes
Tick ==
    /\ clock < Epoch + MaxClock
    /\ clock' = clock + 1
    /\ obs' = [obs EXCEPT !.op = "tick"]
    /\ UNCHANGED <<crawlVars, call, _client, _client_lock, _robots_cache,
                   _robots_cache_lock, _domain_last_request, _domain_lock, threads>>

(***************************************************************************)
(* http.is_allowed_by_robots, lines 300-366, called from two threads.  A   *)
(* call is two steps: the lookup under _robots_cache_lock, and, on a miss, *)
(* the fetch of robots.txt followed by the write under the lock.  Other    *)
(* threads run, and time passes, between the two.                          *)
(***************************************************************************)
Workers == {"t1", "t2"}

RobotsUrls ==
    { <<"https:", "/", "/", "a.com", "/", "a">>,
      <<"https:", "/", "/", "b.com", "/", "b">>,
      <<"https:", "/", "/", "c.com", "/", "a">> }

RobotsAgents == {"*"}

\* what the server answers for robots.txt: no rule, or one rule
ServedRobots ==
    { <<>>, <<UserAgentLine("*"), DisallowLine(<<"/", "a">>)>> }

\* the outcomes of the one attempt of fetch_robots_txt
RobotsOutcomes ==
    {<<Ok(text)>> : text \in ServedRobots} \cup {<<Timeout>>, <<HTTPError>>, <<OtherError>>}

\* line 301
DomainOf(url) == urlparse(url).netloc

RobotsInit ==
    /\ CrawlIdle
    /\ SysInit
    /\ obs = NoObs

RobotsFrame ==
    UNCHANGED <<crawlVars, call, _client, _client_lock, _domain_last_request,
                _domain_lock, clock>>

\* the last step of a call: the thread, the URL, the answer (when the step
\* returns one) and the number of requests made
RobotsObs(op, t, url, allowed, gets) ==
    [op |-> op, thread |-> t, url |-> url, allowed |-> allowed, gets |-> gets]

\* mutant of Live: an entry whose age is the TTL still answers
Live_m(entry, now) == now - entry.ts <= ROBOTS_CACHE_TTL

\* line 316: the cached entry is live
Live(entry, now) == now - entry.ts < ROBOTS_CACHE_TTL

\* lines 300-324: the call is made, and the lookup under the lock
RobotsLookup(t) ==
    /\ At(t, "idle")
    /\ _robots_cache_lock = Free
    /\ \E url \in RobotsUrls, user_agent \in RobotsAgents :
          LET domain == DomainOf(url)
              cache  == IF Len(_robots_cache) > ROBOTS_CACHE_MAX_SIZE
                        THEN _cleanup_robots_cache(_robots_cache, clock)
                        ELSE _robots_cache
              now    == clock
          IN  IF domain \in Domains(cache) /\ Live(Lookup(cache, domain), now)
              THEN \* lines 318-322
                   /\ _robots_cache' = cache
                   /\ threads' = threads
                   /\ obs' = RobotsObs("hit", t, url,
                                path_allowed(robots_path(url), Lookup(cache, domain).rules), 0)
              ELSE \* line 324, or no entry
                   /\ _robots_cache' = Remove(cache, {domain})
                   /\ threads' = [threads EXCEPT ![t] =
                                     [IdleThread EXCEPT !.pc = "r_fetch", !.url = url,
                                                        !.user_agent = user_agent,
                                                        !.now = now]]
                   /\ obs' = RobotsObs(IF domain \in Domains(cache) THEN "expired" ELSE "miss",
                                t, url, TRUE, 0)
    /\ UNCHANGED _robots_cache_lock
    /\ RobotsFrame

\* what fetch_robots_txt(base_url) may return (or raise), over what the
\* server answers
RobotsResults(base_url) ==
    {fetch_robots_txt(base_url, outs) : outs \in RobotsOutcomes}

\* lines 327-366: robots.txt is fetched and parsed, the rule set is cached
\* under the lock and the answer returned
RobotsFetchWrite(t) ==
    /\ At(t, "r_fetch")
    /\ _robots_cache_lock = Free
    /\ LET url      == threads[t].url
           base_url == SchemeSep(urlparse(url).scheme) \o DomainOf(url)
       IN  \E r \in RobotsResults(base_url) :
              IF r.kind = "raise"
              THEN \* the exception of client.get leaves is_allowed_by_robots
                   /\ obs' = RobotsObs("raise", t, url, TRUE, Gets(r.log))
                   /\ UNCHANGED _robots_cache
              ELSE LET disallowed_paths ==
                           IF r.kind = "text" /\ r.text # <<>>
                           THEN parse_robots(r.text, threads[t].user_agent)
                           ELSE {}
                   IN  /\ _robots_cache' = Store(_robots_cache,
                              [domain |-> DomainOf(url), ts |-> threads[t].now,
                               rules |-> disallowed_paths])
                       /\ obs' = RobotsObs(IF r.kind = "text" THEN "fetched" ELSE "fetch_none",
                                    t, url, path_allowed(robots_path(url), disallowed_paths),
                                    Gets(r.log))
    /\ threads' = [threads EXCEPT ![t] = IdleThread]
    /\ UNCHANGED _robots_cache_lock
    /\ RobotsFrame

RobotsNext ==
    \/ \E t \in Workers : RobotsLookup(t)
    \/ \E t \in Workers : RobotsFetchWrite(t)
    \/ Tick

RobotsSpec == RobotsInit /\ [][RobotsNext]_vars

(***************************************************************************)
(* crawler._rate_limit_per_domain, lines 59-79, called from two threads.   *)
(* _domain_lock is held from line 65 to line 79, the sleep of line 77      *)
(* included; a call that sleeps is two steps, one that does not is one.    *)
(***************************************************************************)
RateUrls ==
    { <<"https:", "/", "/", "a.com", "/", "x">>,
      <<"https:", "/", "/", "b.com", "/", "x">>,
      <<"https:", "/", "/", "c.com", "/", "x">> }

RateDomains == {DomainOf(u) : u \in RateUrls}

Delays == (0 - 1)..MaxDelay

\* the last step, and when the last call for each domain completed (0: no
\* call has)
RateObs(op, t, delay, completed) ==
    [op |-> op, thread |-> t, delay |-> delay, completed |-> completed]

RateInit ==
    /\ CrawlIdle
    /\ SysInit
    /\ obs = RateObs("none", "", 0, [d \in RateDomains |-> 0])

RateFrame ==
    UNCHANGED <<crawlVars, call, _client, _client_lock, _robots_cache,
                _robots_cache_lock, clock>>

\* mutant of NoDelay: a delay of 0 is taken for a delay
NoDelay_m(delay) == delay < 0

\* line 59: if delay <= 0
NoDelay(delay) == delay <= 0

\* lines 59-63: the call is made
RateCall(t) ==
    /\ At(t, "idle")
    /\ \E url \in RateUrls, delay \in Delays :
          IF NoDelay(delay)
          THEN \* line 60
               /\ obs' = RateObs("noop", t, delay, obs.completed)
               /\ UNCHANGED threads
          ELSE /\ threads' = [threads EXCEPT ![t] =
                                 [IdleThread EXCEPT !.pc = "rl_lock", !.url = url,
                                                    !.delay = delay, !.started = clock]]
               /\ obs' = RateObs("call", t, delay, obs.completed)
    /\ UNCHANGED <<_domain_last_request, _domain_lock>>
    /\ RateFrame

\* line 71: _domain_last_request.get(domain, 0)
LastRequest(table, domain) ==
    IF domain \in Domains(table) THEN Lookup(table, domain).ts ELSE 0

\* line 79, the release of the lock and the return
RateComplete(t, table) ==
    LET domain == DomainOf(threads[t].url)
    IN  /\ _domain_last_request' = Store(table, [domain |-> domain, ts |-> clock])
        /\ _domain_lock' = Free
        /\ threads' = [threads EXCEPT ![t] = IdleThread]
        /\ obs' = RateObs("complete", t, threads[t].delay,
                          [obs.completed EXCEPT ![domain] = clock])

\* lines 65-79: the lock is taken; the call sleeps with the lock held, or
\* writes the table and returns
RateAcquire(t) ==
    /\ At(t, "rl_lock")
    /\ _domain_lock = Free
    /\ LET table           == IF Len(_domain_last_request) > RATE_LIMIT_MAX_DOMAINS
                              THEN _cleanup_rate_limit_dict(_domain_last_request, clock)
                              ELSE _domain_last_request
           now             == clock
           last_request    == LastRequest(table, DomainOf(threads[t].url))
           time_since_last == now - last_request
       IN  IF time_since_last < threads[t].delay
           THEN \* lines 75-77: time.sleep(wait_time) begins
                /\ _domain_last_request' = table
                /\ _domain_lock' = t
                /\ threads' = [threads EXCEPT
                                  ![t].pc = "rl_sleep", ![t].now = now,
                                  ![t].wake = now + (threads[t].delay - time_since_last)]
                /\ obs' = RateObs("sleep", t, threads[t].delay, obs.completed)
           ELSE RateComplete(t, table)
    /\ RateFrame

\* lines 77-79: the sleep is over (time.sleep returns no sooner than asked)
RateWake(t) ==
    /\ At(t, "rl_sleep")
    /\ clock >= threads[t].wake
    /\ RateComplete(t, _domain_last_request)
    /\ RateFrame

RateNext ==
    \/ \E t \in Workers : RateCall(t)
    \/ \E t \in Workers : RateAcquire(t)
    \/ \E t \in Workers : RateWake(t)
    \/ Tick

RateSpec == RateInit /\ [][RateNext]_vars

(***************************************************************************)
(* http.validate_url called on its own: a URL and an allow-list are drawn  *)
(* and the call is made.  The URLs are built from a scheme (or none), "//" *)
(* and an authority: a host (or none) and a port (or none).                *)
(***************************************************************************)
SchemeParts == { <<"http:">>, <<"https:">>, <<"ftp:">>, <<>> }

\* hosts as they stand in a URL: names, IPv4 addresses, IPv6 addresses in
\* brackets and bare, no host, and an unmatched bracket
HostParts ==
    { <<"a.com">>, <<"localhost">>, <<"srv.local">>, <<"127.0.0.1">>,
      <<"0.0.0.0">>, <<"10.0.0.1">>, <<"8.8.8.8">>, <<"[::1]">>,
      <<"[2606:4700::1111]">>, <<"::">>, <<>>, <<"[">> }

PortParts == { <<>>, <<":8080">> }

PathParts == { <<>>, <<"/", "x">> }

ValidateUrls ==
    {s \o <<"/", "/">> \o h \o p \o x :
        s \in SchemeParts, h \in HostParts \ {<<"::">>}, p \in PortParts, x \in PathParts}
    \cup {s \o <<"/", "/", "::">> \o x : s \in SchemeParts, x \in PathParts}
    \cup { <<"a.com", "/", "x">>, <<"not-a-url">> }

ValidateAllowLists == { {}, {<<"a.com">>}, {<<"localhost">>, <<"10.0.0.1">>} }

ValidateInit ==
    /\ \E u \in ValidateUrls, a \in ValidateAllowLists :
          call = [op |-> "validate_url", url |-> u, allowed_domains |-> a,
                  kind |-> "pending", valid |-> FALSE]
    /\ start_url = <<>>
    /\ max_pages = 0
    /\ max_depth = 0
    /\ respect_robots = FALSE
    /\ visited = {}
    /\ urls_by_depth = [d \in {0} |-> <<>>]
    /\ depth = 0
    /\ idx = 1
    /\ next_urls = <<>>
    /\ pc = "idle"
    /\ fetched = <<>>
    /\ throttled = <<>>
    /\ ev = Event("idle", <<>>)
    /\ SysInit
    /\ obs = NoObs

\* lines 57-110: the call returns (it raises nothing: line 108 catches
\* every exception)
CallValidateUrl ==
    /\ call.op = "validate_url"
    /\ call.kind = "pending"
    /\ call' = [call EXCEPT !.kind = "returned",
                            !.valid = validate_url(call.url, call.allowed_domains)]
    /\ UNCHANGED <<crawlVars, sysVars>>

ValidateNext == CallValidateUrl

ValidateSpec == ValidateInit /\ [][ValidateNext]_vars

(***************************************************************************)
(* The crawl loop in time (crawler.crawl, lines 165-192): one thread       *)
(* fetches the pages of one domain one after the other and calls the rate  *)
(* limiter after each page it got, while time passes.  call keeps the      *)
(* crawl's delay, the number of URLs marked visited, and when the last two *)
(* fetches started (0: no such fetch).                                     *)
(***************************************************************************)
Crawler == "t1"

PacedUrls ==
    { <<"https:", "/", "/", "a.com", "/", "x">>,
      <<"https:", "/", "/", "a.com", "/", "y">> }

PacedInit ==
    /\ start_url = <<>>
    /\ max_pages = 0
    /\ max_depth = 0
    /\ respect_robots = FALSE
    /\ visited = {}
    /\ urls_by_depth = [d \in {0} |-> <<>>]
    /\ depth = 0
    /\ idx = 1
    /\ next_urls = <<>>
    /\ pc = "idle"
    /\ fetched = <<>>
    /\ throttled = <<>>
    /\ ev = Event("idle", <<>>)
    /\ \E delay \in 1..MaxDelay, cap \in 2..MaxPages :
          call = [op |-> "crawl", delay |-> delay, max_pages |-> cap,
                  visited |-> 0, prev_start |-> 0, last_start |-> 0]
    /\ SysInit
    /\ obs = RateObs("none", "", 0, [d \in RateDomains |-> 0])

PacedFrame ==
    UNCHANGED <<crawlVars, _client, _client_lock, _robots_cache,
                _robots_cache_lock, _domain_last_request, _domain_lock, clock>>

\* lines 165-180: the next URL of the level is marked visited and its fetch
\* starts
PacedFetchStart ==
    /\ At(Crawler, "idle")
    /\ call.visited < call.max_pages
    /\ \E url \in PacedUrls :
          threads' = [threads EXCEPT ![Crawler] =
                         [IdleThread EXCEPT !.pc = "c_fetch", !.url = url]]
    /\ call' = [call EXCEPT !.visited = call.visited + 1,
                            !.prev_start = call.last_start,
                            !.last_start = clock]
    /\ obs' = [obs EXCEPT !.op = "fetch_start"]
    /\ PacedFrame

\* lines 180-192: the fetch is over.  Without a page the loop goes to the
\* next URL (lines 181-182); with one, the rate limiter is called unless the
\* cap is reached (lines 191-192)
PacedFetchEnd ==
    /\ At(Crawler, "c_fetch")
    /\ \E html \in {"page", "None"} :
          IF html = "None"
          THEN /\ threads' = [threads EXCEPT ![Crawler] = IdleThread]
               /\ obs' = [obs EXCEPT !.op = "fetch_none"]
          ELSE IF call.visited < call.max_pages
          THEN /\ threads' = [threads EXCEPT ![Crawler] =
                                 [IdleThread EXCEPT !.pc = "rl_lock",
                                                    !.url = threads[Crawler].url,
                                                    !.delay = call.delay,
                                                    !.started = clock]]
               /\ obs' = [obs EXCEPT !.op = "fetch_ok"]
          ELSE /\ threads' = [threads EXCEPT ![Crawler] = IdleThread]
               /\ obs' = [obs EXCEPT !.op = "cap_reached"]
    /\ UNCHANGED call
    /\ PacedFrame

PacedNext ==
    \/ PacedFetchStart
    \/ PacedFetchEnd
    \/ RateAcquire(Crawler)
    \/ RateWake(Crawler)
    \/ Tick

PacedSpec == PacedInit /\ [][PacedNext]_vars

(***************************************************************************)
(* http._matches_robots_pattern called on its own: a path and a pattern    *)
(* are drawn, as sequences of characters, and the call is made.            *)
(***************************************************************************)
MaxPathLen == 3

PathChars == {"/", "a", "b", "."}
PatternChars == {"/", "a", ".", "*", "$"}

MatchPaths == SeqsUpTo(PathChars, MaxPathLen)
MatchPatterns == SeqsUpTo(PatternChars, MaxPathLen)

MatchInit ==
    /\ \E path \in MatchPaths, pattern \in MatchPatterns :
          call = [op |-> "matches", path |-> path, pattern |-> pattern,
                  kind |-> "pending", matches |-> FALSE]
    /\ start_url = <<>>
    /\ max_pages = 0
    /\ max_depth = 0
    /\ respect_robots = FALSE
    /\ visited = {}
    /\ urls_by_depth = [d \in {0} |-> <<>>]
    /\ depth = 0
    /\ idx = 1
    /\ next_urls = <<>>
    /\ pc = "idle"
    /\ fetched = <<>>
    /\ throttled = <<>>
    /\ ev = Event("idle", <<>>)
    /\ SysInit
    /\ obs = NoObs

\* lines 379-394
CallMatches ==
    /\ call.op = "matches"
    /\ call.kind = "pending"
    /\ call' = [call EXCEPT !.kind = "returned",
                            !.matches = _matches_robots_pattern(call.path, call.pattern)]
    /\ UNCHANGED <<crawlVars, sysVars>>

MatchNext == CallMatches

MatchSpec == MatchInit /\ [][MatchNext]_vars

(***************************************************************************)
(* The two cleanups called on their own (http._cleanup_robots_cache,       *)
(* crawler._cleanup_rate_limit_dict): a table is drawn, with its entries   *)
(* in any order and of any age, and one of the cleanups runs on it.  call  *)
(* keeps the table as it was before.                                       *)
(***************************************************************************)
CleanupDomains == { <<"a.com">>, <<"b.com">>, <<"c.com">>, <<"d.com">> }

\* the timestamps of the entries: from older than either TTL to the epoch
CleanupStamps == (Epoch - RATE_LIMIT_TTL - 1)..Epoch

CleanupTables(entries) ==
    {t \in SeqsUpTo(entries, Cardinality(CleanupDomains)) :
        \A i, j \in 1..Len(t) : t[i].domain = t[j].domain => i = j}

RobotsEntries == [domain : CleanupDomains, ts : CleanupStamps, rules : {{}}]
RateEntries == [domain : CleanupDomains, ts : CleanupStamps]

CleanupInit ==
    /\ start_url = <<>>
    /\ max_pages = 0
    /\ max_depth = 0
    /\ respect_robots = FALSE
    /\ visited = {}
    /\ urls_by_depth = [d \in {0} |-> <<>>]
    /\ depth = 0
    /\ idx = 1
    /\ next_urls = <<>>
    /\ pc = "idle"
    /\ fetched = <<>>
    /\ throttled = <<>>
    /\ ev = Event("idle", <<>>)
    /\ _client = NoClient
    /\ _client_lock = Free
    /\ _robots_cache_lock = Free
    /\ _domain_lock = Free
    /\ threads = [t \in Threads |-> IdleThread]
    /\ clock \in Epoch..(Epoch + 1)
    /\ \/ /\ _robots_cache \in CleanupTables(RobotsEntries)
          /\ _domain_last_request = NoTable
          /\ call = [op |-> "_cleanup_robots_cache", table |-> _robots_cache,
                     kind |-> "pending"]
       \/ /\ _domain_last_request \in CleanupTables(RateEntries)
          /\ _robots_cache = NoTable
          /\ call = [op |-> "_cleanup_rate_limit_dict", table |-> _domain_last_request,
                     kind |-> "pending"]
    /\ obs = NoObs

\* http.py lines 271-287
CleanupRobotsCache ==
    /\ call.op = "_cleanup_robots_cache"
    /\ call.kind = "pending"
    /\ _robots_cache' = _cleanup_robots_cache(_robots_cache, clock)
    /\ call' = [call EXCEPT !.kind = "returned"]
    /\ UNCHANGED <<crawlVars, _client, _client_lock, _robots_cache_lock,
                   _domain_last_request, _domain_lock, threads, clock, obs>>

\* crawler.py lines 29-46
CleanupRateLimitDict ==
    /\ call.op = "_cleanup_rate_limit_dict"
    /\ call.kind = "pending"
    /\ _domain_last_request' = _cleanup_rate_limit_dict(_domain_last_request, clock)
    /\ call' = [call EXCEPT !.kind = "returned"]
    /\ UNCHANGED <<crawlVars, _client, _client_lock, _robots_cache,
                   _robots_cache_lock, _domain_lock, threads, clock, obs>>

CleanupNext ==
    \/ CleanupRobotsCache
    \/ CleanupRateLimitDict

CleanupSpec == CleanupInit /\ [][CleanupNext]_vars

(***************************************************************************)
(* The three locks.  Every thread calls crawl, is_allowed_by_robots,       *)
(* _rate_limit_per_domain, get_client and close, one call after the other, *)
(* and each call is followed from lock to lock: a step takes a lock, or    *)
(* runs to the next point where a lock is taken or the call returns.  What *)
(* a step finds in the tables (a hit or a miss, a need to sleep, a URL     *)
(* that validates) is left open: every branch of the code is taken.  A     *)
(* nested call is followed in the frame of its caller: a frame names the   *)
(* positions of one call and where it returns to.                          *)
(***************************************************************************)
\* get_client, called by a thread, by fetch_with_retry in is_allowed_by_robots
\* (lines 328, 257, 182), in crawl's robots check, and in crawl's fetch_page
ClientFrames ==
    { [check |-> "gc.check", lock |-> "gc.lock", locked |-> "gc.locked",
       ret |-> "idle"],
      [check |-> "ia.gc.check", lock |-> "ia.gc.lock", locked |-> "ia.gc.locked",
       ret |-> "ia.get"],
      [check |-> "cw.ia.gc.check", lock |-> "cw.ia.gc.lock",
       locked |-> "cw.ia.gc.locked", ret |-> "cw.ia.get"],
      [check |-> "cw.gc.check", lock |-> "cw.gc.lock", locked |-> "cw.gc.locked",
       ret |-> "cw.get"] }

\* is_allowed_by_robots, called by a thread and by crawl (crawler.py line 173)
RobotsFrames ==
    { [lock1 |-> "ia.lock1", locked1 |-> "ia.locked1", gc |-> "ia.gc.check",
       get |-> "ia.get", lock2 |-> "ia.lock2", locked2 |-> "ia.locked2",
       allowed |-> "idle", disallowed |-> "idle"],
      [lock1 |-> "cw.ia.lock1", locked1 |-> "cw.ia.locked1", gc |-> "cw.ia.gc.check",
       get |-> "cw.ia.get", lock2 |-> "cw.ia.lock2", locked2 |-> "cw.ia.locked2",
       allowed |-> "cw.fetch", disallowed |-> "cw.next"] }

\* _rate_limit_per_domain, called by a thread and by crawl (line 192)
RateFrames ==
    { [lock |-> "rl.lock", locked |-> "rl.locked", ret |-> "idle"],
      [lock |-> "cw.rl.lock", locked |-> "cw.rl.locked", ret |-> "cw.next"] }

LockInit ==
    /\ CrawlIdle
    /\ SysInit
    /\ obs = NoObs

LockFrame == UNCHANGED <<crawlVars, call, _robots_cache, _domain_last_request, clock, obs>>

\* a thread makes a call
LockCall(t) ==
    /\ At(t, "idle")
    /\ \E first \in {"gc.check", "cl.lock", "ia.lock1", "rl.lock", "cw.url"} :
          threads' = Goto(t, first)
    /\ UNCHANGED <<_client, _client_lock, _robots_cache_lock, _domain_lock>>
    /\ LockFrame

\* http.py line 116
LockClientCheck(t) ==
    /\ \E f \in ClientFrames :
          /\ At(t, f.check)
          /\ threads' = Goto(t, IF _client = NoClient THEN f.lock ELSE f.ret)
    /\ UNCHANGED <<_client, _client_lock, _robots_cache_lock, _domain_lock>>
    /\ LockFrame

\* line 117
LockClientAcquire(t) ==
    /\ \E f \in ClientFrames :
          /\ At(t, f.lock)
          /\ threads' = Goto(t, f.locked)
    /\ _client_lock = Free
    /\ _client_lock' = t
    /\ UNCHANGED <<_client, _robots_cache_lock, _domain_lock>>
    /\ LockFrame

\* lines 119-125
LockClientRelease(t) ==
    /\ \E f \in ClientFrames :
          /\ At(t, f.locked)
          /\ threads' = Goto(t, f.ret)
    /\ _client' = IF _client = NoClient THEN 1 ELSE _client
    /\ _client_lock' = Free
    /\ UNCHANGED <<_robots_cache_lock, _domain_lock>>
    /\ LockFrame

\* line 219
LockCloseAcquire(t) ==
    /\ At(t, "cl.lock")
    /\ _client_lock = Free
    /\ _client_lock' = t
    /\ threads' = Goto(t, "cl.locked")
    /\ UNCHANGED <<_client, _robots_cache_lock, _domain_lock>>
    /\ LockFrame

\* lines 220-222
LockCloseRelease(t) ==
    /\ At(t, "cl.locked")
    /\ _client' = NoClient
    /\ _client_lock' = Free
    /\ threads' = Goto(t, "idle")
    /\ UNCHANGED <<_robots_cache_lock, _domain_lock>>
    /\ LockFrame

\* line 306
LockRobotsAcquire1(t) ==
    /\ \E f \in RobotsFrames :
          /\ At(t, f.lock1)
          /\ threads' = Goto(t, f.locked1)
    /\ _robots_cache_lock = Free
    /\ _robots_cache_lock' = t
    /\ UNCHANGED <<_client, _client_lock, _domain_lock>>
    /\ LockFrame

\* mutant of LockAfterLookup: the lock is kept while robots.txt is fetched
LockAfterLookup_m(t) == t

\* the robots-cache lock when the block of lines 306-324 is left
LockAfterLookup(t) == Free

\* lines 307-328: a cached answer (lines 318-322), an exception of the
\* pattern match, or a miss; after a miss fetch_with_retry calls get_client,
\* unless the URL of robots.txt does not validate (line 179)
LockRobotsRelease1(t) ==
    /\ \E f \in RobotsFrames :
          /\ At(t, f.locked1)
          /\ \E next \in {f.allowed, f.disallowed, "idle", f.gc, f.lock2} :
                threads' = Goto(t, next)
    /\ _robots_cache_lock' = LockAfterLookup(t)
    /\ UNCHANGED <<_client, _client_lock, _domain_lock>>
    /\ LockFrame

\* lines 184-213, 330-354: the request is made and its answer parsed, or the
\* request raises
LockRobotsRequest(t) ==
    /\ \E f \in RobotsFrames :
          /\ At(t, f.get)
          /\ \E next \in {f.lock2, "idle"} : threads' = Goto(t, next)
    /\ UNCHANGED <<_client, _client_lock, _robots_cache_lock, _domain_lock>>
    /\ LockFrame

\* line 357
LockRobotsAcquire2(t) ==
    /\ \E f \in RobotsFrames :
          /\ At(t, f.lock2)
          /\ threads' = Goto(t, f.locked2)
    /\ _robots_cache_lock = Free
    /\ _robots_cache_lock' = t
    /\ UNCHANGED <<_client, _client_lock, _domain_lock>>
    /\ LockFrame

\* lines 358-366
LockRobotsRelease2(t) ==
    /\ \E f \in RobotsFrames :
          /\ At(t, f.locked2)
          /\ \E next \in {f.allowed, f.disallowed, "idle"} : threads' = Goto(t, next)
    /\ _robots_cache_lock' = Free
    /\ UNCHANGED <<_client, _client_lock, _domain_lock>>
    /\ LockFrame

\* crawler.py line 65
LockRateAcquire(t) ==
    /\ \E f \in RateFrames :
          /\ At(t, f.lock)
          /\ threads' = Goto(t, f.locked)
    /\ _domain_lock = Free
    /\ _domain_lock' = t
    /\ UNCHANGED <<_client, _client_lock, _robots_cache_lock>>
    /\ LockFrame

\* lines 66-79: the cleanup, the sleep and the write, all with the lock held
LockRateRelease(t) ==
    /\ \E f \in RateFrames :
          /\ At(t, f.locked)
          /\ threads' = Goto(t, f.ret)
    /\ _domain_lock' = Free
    /\ UNCHANGED <<_client, _client_lock, _robots_cache_lock>>
    /\ LockFrame

\* crawler.py lines 165-180: the next URL of the level; the robots check,
\* the fetch, or a skip; fetch_with_retry calls get_client unless the URL
\* does not validate; then the request; and lines 181-192 after it
LockCrawlStep(t) ==
    /\ \/ /\ At(t, "cw.url")
          /\ \E next \in {"cw.ia.lock1", "cw.fetch", "cw.next"} : threads' = Goto(t, next)
       \/ /\ At(t, "cw.fetch")
          /\ \E next \in {"cw.gc.check", "cw.next"} : threads' = Goto(t, next)
       \/ /\ At(t, "cw.get")
          /\ \E next \in {"cw.rl.lock", "cw.next", "idle"} : threads' = Goto(t, next)
       \/ /\ At(t, "cw.next")
          /\ \E next \in {"cw.url", "idle"} : threads' = Goto(t, next)
    /\ UNCHANGED <<_client, _client_lock, _robots_cache_lock, _domain_lock>>
    /\ LockFrame

\* the steps of one thread
LockStep(t) ==
    \/ LockCall(t)
    \/ LockClientCheck(t)
    \/ LockClientAcquire(t)
    \/ LockClientRelease(t)
    \/ LockCloseAcquire(t)
    \/ LockCloseRelease(t)
    \/ LockRobotsAcquire1(t)
    \/ LockRobotsRelease1(t)
    \/ LockRobotsRequest(t)
    \/ LockRobotsAcquire2(t)
    \/ LockRobotsRelease2(t)
    \/ LockRateAcquire(t)
    \/ LockRateRelease(t)
    \/ LockCrawlStep(t)

LockNext == \E t \in Threads : LockStep(t)

LockSpec == LockInit /\ [][LockNext]_vars

(***************************************************************************)
(* http.is_allowed_by_robots, lines 300-366, called again and again for    *)
(* one site by one caller, with varying user agents.  The site serves one  *)
(* robots.txt, drawn at the start, and every request for it succeeds; a    *)
(* call is one step.                                                       *)
(***************************************************************************)
AgentLines ==
    { UserAgentLine("*"), UserAgentLine("MyBot"), DisallowLine(<<"/", "a">>) }

AgentTexts == SeqsUpTo(AgentLines, MaxLines)

AgentUrls ==
    { <<"https:", "/", "/", "a.com", "/", "a">>,
      <<"https:", "/", "/", "a.com", "/", "b">> }

\* the last call: how it was answered, its arguments, its answer, and the
\* user agent of the call that wrote the entry of the domain
AgentObs(op, url, user_agent, allowed, made_by) ==
    [op |-> op, url |-> url, user_agent |-> user_agent, allowed |-> allowed,
     made_by |-> made_by]

AgentInit ==
    /\ start_url = <<>>
    /\ max_pages = 0
    /\ max_depth = 0
    /\ respect_robots = FALSE
    /\ visited = {}
    /\ urls_by_depth = [d \in {0} |-> <<>>]
    /\ depth = 0
    /\ idx = 1
    /\ next_urls = <<>>
    /\ pc = "idle"
    /\ fetched = <<>>
    /\ throttled = <<>>
    /\ ev = Event("idle", <<>>)
    /\ SysInit
    /\ \E text \in AgentTexts : call = [op |-> "site", robots_content |-> text]
    /\ obs = AgentObs("none", <<>>, "", TRUE, "")

\* lines 300-366: one call, from the lookup to the answer
AgentCall ==
    /\ call.op = "site"
    /\ _robots_cache_lock = Free
    /\ \E url \in AgentUrls, user_agent \in UserAgents :
          LET domain == DomainOf(url)
              cache  == IF Len(_robots_cache) > ROBOTS_CACHE_MAX_SIZE
                        THEN _cleanup_robots_cache(_robots_cache, clock)
                        ELSE _robots_cache
              now    == clock
          IN  IF domain \in Domains(cache) /\ Live(Lookup(cache, domain), now)
              THEN \* lines 318-322
                   /\ _robots_cache' = cache
                   /\ obs' = AgentObs("hit", url, user_agent,
                                path_allowed(robots_path(url), Lookup(cache, domain).rules),
                                obs.made_by)
              ELSE \* lines 324-366
                   LET robots_content == call.robots_content
                       disallowed_paths ==
                           IF robots_content # <<>>
                           THEN parse_robots(robots_content, user_agent)
                           ELSE {}
                   IN  /\ _robots_cache' = Store(Remove(cache, {domain}),
                              [domain |-> domain, ts |-> now, rules |-> disallowed_paths])
                       /\ obs' = AgentObs("fetched", url, user_agent,
                                    path_allowed(robots_path(url), disallowed_paths),
                                    user_agent)
    /\ UNCHANGED <<crawlVars, call, _client, _client_lock, _robots_cache_lock,
                   _domain_last_request, _domain_lock, threads, clock>>

AgentNext ==
    \/ AgentCall
    \/ Tick

AgentSpec == AgentInit /\ [][AgentNext]_vars

(***************************************************************************)
(* crawl (crawler.py lines 135-201) on a site that answers every request   *)
(* and whose robots.txt allows every URL: the steps of Spec without the    *)
(* refusals and the failed fetches.  Each URL is requested at most once;   *)
(* call.site records the page served for it.                               *)
(***************************************************************************)
SiteInit ==
    /\ start_url \in StartUrls
    /\ max_pages \in 0..MaxPages
    /\ max_depth \in 0..MaxDepth
    /\ respect_robots \in BOOLEAN
    /\ visited = {}
    /\ urls_by_depth = [d \in {0} |-> <<start_url>>]
    /\ depth = 0
    /\ idx = 1
    /\ next_urls = <<>>
    /\ pc = "level"
    /\ fetched = <<>>
    /\ throttled = <<>>
    /\ ev = Event("call", start_url)
    /\ call = [op |-> "crawl", site |-> <<>>]
    /\ SysInit
    /\ obs = NoObs

\* lines 173-192: is_allowed_by_robots(url) is True (or robots are not
\* respected), and fetch_page(url) returns the page served
SiteVisit ==
    /\ AtRobotsCheck
    /\ \E page \in PageResults(url_at_idx) :
          /\ page.kind = "text"
          /\ Visit(url_at_idx, page)
          /\ call' = [call EXCEPT
                         !.site = Append(@, [url |-> url_at_idx, html |-> page.text])]
    /\ UNCHANGED <<start_url, max_pages, max_depth, respect_robots,
                   urls_by_depth, depth, sysVars>>

SiteNext ==
    \/ LevelsExhausted
    \/ LevelMissing
    \/ LevelStart
    \/ UrlsExhausted
    \/ UrlCapBreak
    \/ UrlSkipVisited
    \/ SiteVisit
    \/ LevelEnd

SiteSpec == SiteInit /\ [][SiteNext]_vars

(***************************************************************************)
(* Properties.                                                             *)
(***************************************************************************)
NoDuplicates(s) == \A i, j \in 1..Len(s) : s[i] = s[j] => i = j

\* the links the step appended to next_urls
Appended == SubSeq(next_urls', Len(next_urls) + 1, Len(next_urls'))

Failed(o) == o.k \in {"timeout", "http_error"}

\* C1: in every reachable state of crawl, and so when it returns, the
\* visited set holds at most max_pages URLs, whatever the pages link to and
\* however the fetches end.
C1_VisitedWithinMaxPages == Cardinality(visited) <= max_pages

\* crawl stopped on the page cap while URLs it had queued were still unvisited
C1_Witness ==
    /\ pc = "done"
    /\ ev.op = "cap_stop"
    /\ max_pages >= 2
    /\ Cardinality(visited) = max_pages
    /\ \E d \in DOMAIN urls_by_depth : Range(urls_by_depth[d]) \ visited # {}

\* C2: within one crawl each URL is handed to fetch_page at most once, and
\* the URLs fetched are exactly the visited set, also for a URL that was
\* queued more than once.
C2_FetchedAtMostOnce ==
    /\ NoDuplicates(fetched)
    /\ Range(fetched) = visited

\* a URL queued at two depths was fetched, and the crawl has returned
C2_Witness ==
    /\ pc = "done"
    /\ \E d1, d2 \in DOMAIN urls_by_depth :
          /\ d1 < d2
          /\ \E u \in Range(urls_by_depth[d1]) \cap Range(urls_by_depth[d2]) :
                u \in Range(fetched)

\* C3: with max_depth = 0 nothing but start_url is ever visited or fetched.
C3_DepthZeroOnlyStart ==
    max_depth = 0 => /\ visited \subseteq {start_url}
                     /\ Range(fetched) \subseteq {start_url}

\* a crawl of depth 0 returned with the links of the start page queued for
\* depth 1 and none of them visited
C3_Witness ==
    /\ max_depth = 0
    /\ pc = "done"
    /\ 1 \in DOMAIN urls_by_depth
    /\ visited = {start_url}

\* C4: a fetch failure for a URL never aborts the crawl: in the step in
\* which the fetch of a URL fails, the URL is added to visited (one more
\* unit of the budget), no link is queued, and crawl goes on to the next URL
\* of the level.
C4_FetchFailureNeverAborts ==
    [][ev'.op \in {"fetch_none", "fetch_raise"} =>
          /\ ev'.url \in visited'
          /\ Cardinality(visited') = Cardinality(visited) + 1
          /\ next_urls' = next_urls
          /\ pc' = "url"
          /\ idx' = idx + 1]_vars

\* C4, for the failures fetch_page reports by returning None: these never
\* abort the crawl.
C4_NoneNeverAborts ==
    [][ev'.op = "fetch_none" =>
          /\ ev'.url \in visited'
          /\ Cardinality(visited') = Cardinality(visited) + 1
          /\ next_urls' = next_urls
          /\ pc' = "url"
          /\ idx' = idx + 1]_vars

\* C5: with respect_robots, the step that finds a URL disallowed by robots
\* neither fetches it nor adds it to visited nor queues any link.
C5_RobotsDisallowedSkipped ==
    [][ev'.op = "skip_robots" =>
          /\ respect_robots
          /\ visited' = visited
          /\ fetched' = fetched
          /\ next_urls' = next_urls
          /\ urls_by_depth' = urls_by_depth]_vars

\* a URL found on a page was just skipped as disallowed: it is not visited
C5_Witness ==
    /\ ev.op = "skip_robots"
    /\ respect_robots
    /\ ev.url # start_url
    /\ ev.url \notin visited
    /\ ev.url \notin Range(fetched)
    /\ visited # {}

\* C6: crawl returns: when every fetch returns, crawl does not end by an
\* exception.
C6_CrawlReturns ==
    pc = "raised" => ev.op \in {"fetch_raise", "robots_raise"}

\* C6, the part that holds: crawl always ends, by a return or by an exception.
C6_CrawlEnds == <>(pc \in {"done", "raised"})

\* C7: a link is appended to the next level only if its authority is that
\* of the page it was found on, and it is an href of the page resolved
\* against the page's URL.
C7_SameAuthorityOnly ==
    [][ev'.op = "fetch_ok" =>
          \A i \in 1..Len(Appended) :
              /\ urlparse(Appended[i]).netloc = urlparse(ev'.url).netloc
              /\ \E h \in Hrefs : Appended[i] = normalize_url(h, ev'.url)]_vars

\* the last link queued is the relative href "y" resolved against the page
\* it was found on, a page that is not the start URL
C7_Witness ==
    /\ ev.op = "fetch_ok"
    /\ ev.url # start_url
    /\ next_urls # <<>>
    /\ next_urls[Len(next_urls)] = ev.url \o <<"/", "y">>

\* C8: fetch_with_retry on a URL that validates: when the first k <
\* max_retries attempts fail (timeouts and HTTP errors in any mix) and the
\* next succeeds, it returns that response's payload after exactly k + 1
\* requests; when max_retries attempts fail it has made exactly max_retries
\* requests and returns None.
C8_RetryAttempts ==
    (/\ call.op = "fetch_with_retry"
     /\ call.kind # "pending"
     /\ validate_url(call.url, call.allowed_domains))
    => /\ \A k \in 0..(call.max_retries - 1) :
             (/\ \A i \in 1..k : Failed(call.outs[i])
              /\ call.outs[k + 1].k = "ok")
             => /\ Gets(call.log) = k + 1
                /\ call.kind = IF call.return_response THEN "response" ELSE "text"
                /\ call.text = call.outs[k + 1].text
       /\ (\A i \in 1..call.max_retries : Failed(call.outs[i]))
             => /\ Gets(call.log) = call.max_retries
                /\ call.kind = "none"

\* a timeout, then an HTTP error, then a response: the text came back after
\* three requests
C8_Witness ==
    /\ call.op = "fetch_with_retry"
    /\ call.kind = "text"
    /\ call.max_retries = 3
    /\ call.outs[1] = Timeout
    /\ call.outs[2] = HTTPError
    /\ call.text # <<>>
    /\ Gets(call.log) = 3

\* C9: every request of fetch, fetch_with_retry and fetch_robots_txt comes
\* after a validate_url of the requested URL that passed; a call whose
\* validation fails returns None having made no request and slept no time.
C9_ValidatedBeforeRequest ==
    call.kind # "pending" =>
       /\ \A i \in 1..Len(call.log) :
             call.log[i].e = "get" =>
                /\ \E j \in 1..(i - 1) : call.log[j] = LogValidate(call.log[i].url, TRUE)
                /\ validate_url(call.log[i].url, call.allowed_domains)
       /\ \A j \in 1..Len(call.log) :
             (call.log[j].e = "validate" /\ call.log[j].n = 0) =>
                /\ call.kind = "none"
                /\ \A i \in 1..Len(call.log) : call.log[i].e \notin {"get", "sleep"}

\* a fetch_with_retry of a URL that does not validate returned None without
\* a request, though its first attempt would have been answered
C9_Witness ==
    /\ call.op = "fetch_with_retry"
    /\ call.kind = "none"
    /\ call.max_retries = 3
    /\ call.outs[1].k = "ok"
    /\ ~validate_url(call.url, call.allowed_domains)
    /\ call.log = <<LogValidate(call.url, FALSE)>>

\* C10: fetch and fetch_with_retry never raise to the caller.
C10_NeverRaises ==
    call.op \in {"fetch", "fetch_with_retry"} => call.kind # "raise"

\* C11: as long as no close() has been called, however many threads are
\* inside get_client at once, at most one client has been constructed and
\* every get_client that has returned returned that one client.
C11_ConstructedOnce ==
    obs.close_calls = 0 =>
       /\ obs.constructed <= 1
       /\ obs.returned # {} => /\ obs.constructed = 1
                               /\ _client # NoClient
                               /\ obs.returned = {_client}

\* two threads found no client at line 116; one has constructed it and
\* returned, the other holds the lock and finds the client at line 119
C11_Witness ==
    /\ obs.close_calls = 0
    /\ obs.constructed = 1
    /\ obs.returned = {1}
    /\ \E t \in Threads : At(t, "gc_locked") /\ _client = 1

\* C12: over any calls of get_client and close, from any threads, no
\* constructed client is closed more than once, and a close() that finds no
\* client leaves the shared client and every constructed client as it was.
C12_CloseIdempotent ==
    /\ [](\A i \in ClientIds : obs.closed[i] <= 1)
    /\ [][obs'.op = "cl_noop" =>
             /\ _client' = _client
             /\ _client' = NoClient
             /\ obs'.closed = obs.closed
             /\ obs'.constructed = obs.constructed]_vars

\* a second close() found no client after the first one had closed client 1
C12_Witness ==
    /\ obs.op = "cl_noop"
    /\ obs.close_calls = 2
    /\ obs.closed[1] = 1
    /\ _client = NoClient

\* a pattern matched as a plain prefix: not empty, without "*", not ending
\* in "$"
PlainPattern(p) == p # <<>> /\ "*" \notin Range(p) /\ p[Len(p)] # "$"

IsUserAgentLine(line) == line # <<>> /\ Lower(Head(line)) = "user-agent:"
IsDisallowLine(line) == line # <<>> /\ Lower(Head(line)) = "disallow:"

\* the agent of the group line i of a robots.txt stands under: that of the
\* nearest User-agent line before it ("" when there is none)
GroupAgent(text, i) ==
    LET before == {j \in 1..(i - 1) : IsUserAgentLine(text[j])}
        last   == CHOOSE j \in before : \A k \in before : k <= j
    IN  IF before = {} THEN "" ELSE Lower(text[last][2])

LookupOfLiveEntry ==
    /\ obs'.op \in {"hit", "miss", "expired"}
    /\ DomainOf(obs'.url) \in Domains(_robots_cache)
    /\ Live(Lookup(_robots_cache, DomainOf(obs'.url)), clock)

\* C13: a call that finds a live rule set cached for its domain answers by
\* matching the path against the cached patterns, fetches nothing and
\* leaves the cache as it was.
C13_LiveEntryAnswers ==
    [][LookupOfLiveEntry =>
          /\ obs'.op = "hit"
          /\ obs'.allowed = path_allowed(robots_path(obs'.url),
                               Lookup(_robots_cache, DomainOf(obs'.url)).rules)
          /\ _robots_cache' = _robots_cache
          /\ threads' = threads]_vars

\* C13, for a cache that is not over its cap when the call is made.
C13_LiveEntryAnswersWithinCap ==
    [][(LookupOfLiveEntry /\ Len(_robots_cache) <= ROBOTS_CACHE_MAX_SIZE) =>
          /\ obs'.op = "hit"
          /\ obs'.allowed = path_allowed(robots_path(obs'.url),
                               Lookup(_robots_cache, DomainOf(obs'.url)).rules)
          /\ _robots_cache' = _robots_cache
          /\ threads' = threads]_vars

\* C14: a call that misses the cache makes one request for robots.txt; when
\* that request fails the call answers true and an empty rule set is cached
\* for the domain.
C14_FetchFailureAllows ==
    [][(obs'.op \in {"fetch_none", "raise"} /\ obs' # obs) =>
          /\ obs'.gets = 1
          /\ obs'.op = "fetch_none"
          /\ obs'.allowed
          /\ DomainOf(obs'.url) \in Domains(_robots_cache')
          /\ Lookup(_robots_cache', DomainOf(obs'.url)).rules = {}]_vars

\* C14, for the failures fetch_robots_txt reports by returning None.
C14_NoneAllows ==
    [][(obs'.op = "fetch_none" /\ obs' # obs) =>
          /\ obs'.gets = 1
          /\ obs'.allowed
          /\ DomainOf(obs'.url) \in Domains(_robots_cache')
          /\ Lookup(_robots_cache', DomainOf(obs'.url)).rules = {}]_vars

\* C19: the robots cache never holds more than ROBOTS_CACHE_MAX_SIZE
\* domains.
C19_RobotsCacheWithinCap == Len(_robots_cache) <= ROBOTS_CACHE_MAX_SIZE

\* thread t's throttle call completes in the step
RateCompletes(t) ==
    /\ threads[t].pc \in {"rl_lock", "rl_sleep"}
    /\ threads'[t].pc = "idle"

\* C16: whatever calls are made, for whatever domains, a call with delay d >
\* 0 completes at least d after the completion of the last call for the same
\* domain.
C16_CompletionsApart ==
    [][\A t \in Workers :
          (RateCompletes(t) /\ obs.completed[DomainOf(threads[t].url)] # 0) =>
             clock' - obs.completed[DomainOf(threads[t].url)] >= threads[t].delay]_vars

\* C16, for a call whose domain still has its entry in a table that is not
\* over its cap.
C16_CompletionsApartWhileTracked ==
    [][\A t \in Workers :
          (/\ RateCompletes(t)
           /\ DomainOf(threads[t].url) \in Domains(_domain_last_request)
           /\ Len(_domain_last_request) <= RATE_LIMIT_MAX_DOMAINS) =>
             clock' - obs.completed[DomainOf(threads[t].url)] >= threads[t].delay]_vars

\* C17: a call for one domain is never held up by the sleep of a call for
\* another domain: while that call sleeps, it can take its next step.
C17_NoCrossDomainWait ==
    \A a, b \in Workers :
       (/\ At(a, "rl_sleep")
        /\ At(b, "rl_lock")
        /\ DomainOf(threads[a].url) # DomainOf(threads[b].url))
       => ENABLED RateAcquire(b)

\* C18: a call with delay <= 0 returns at once: it never reaches the lock,
\* and the step in which it is made leaves the rate-limit table, the lock,
\* the clock and every thread as they were.
C18_NoDelayNoEffect ==
    /\ [](\A t \in Workers :
             threads[t].pc \in {"rl_lock", "rl_sleep"} => threads[t].delay > 0)
    /\ [][(obs'.op \in {"noop", "call"} /\ obs'.delay <= 0) =>
             /\ obs'.op = "noop"
             /\ _domain_last_request' = _domain_last_request
             /\ _domain_lock' = _domain_lock
             /\ threads' = threads
             /\ clock' = clock]_vars

\* a call with delay 0 returned while the table held an entry and another
\* thread slept
C18_Witness ==
    /\ obs.op = "noop"
    /\ obs.delay = 0
    /\ _domain_last_request # <<>>
    /\ \E t \in Workers : At(t, "rl_sleep") /\ t # obs.thread

\* C20: the rate-limit table never holds more than RATE_LIMIT_MAX_DOMAINS
\* entries.
C20_RateTableWithinCap == Len(_domain_last_request) <= RATE_LIMIT_MAX_DOMAINS

(***************************************************************************)
(* validate_url (ValidateSpec).                                            *)
(***************************************************************************)
ValidateReturned == call.op = "validate_url" /\ call.kind = "returned"

CallScheme == urlparse(call.url).scheme

CallHost == hostname(urlparse(call.url).netloc)

\* the hosts the specification names as blocked: the four listed hosts, the
\* names ending in ".local", and the private, loopback and reserved addresses
NamedBlockedHosts == {"localhost", "127.0.0.1", "0.0.0.0", "::"}
EndsInDotLocal == {"srv.local"}
NonPublicAddresses == {"127.0.0.1", "0.0.0.0", "10.0.0.1", "::", "::1"}

\* the public hosts: a domain name, an IPv4 address, an IPv6 address
PublicHosts == {"a.com", "8.8.8.8", "2606:4700::1111"}

\* C21: validate_url returns false for every URL whose scheme is not http or
\* https, whose host is one of the blocked hosts, ends in ".local" or is a
\* private, loopback or reserved address, or whose host is not in a supplied
\* non-empty allow-list; a blocked host is refused also when the allow-list
\* holds it.
C21_BlockedRejected ==
    ( /\ ValidateReturned
      /\ \/ CallScheme \notin {"http:", "https:"}
         \/ CallHost \in NamedBlockedHosts \cup EndsInDotLocal \cup NonPublicAddresses
         \/ /\ call.allowed_domains # {}
            /\ <<CallHost>> \notin call.allowed_domains )
    => ~call.valid

\* witness of C21: a blocked host that the allow-list holds was refused
C21_Witness ==
    /\ ValidateReturned
    /\ CallScheme = "http:"
    /\ CallHost = "localhost"
    /\ <<CallHost>> \in call.allowed_domains
    /\ ~call.valid

\* C22: validate_url returns true for every well-formed http or https URL
\* whose host is public (a domain name, an IPv4 or an IPv6 address, with or
\* without a port) when no allow-list is given.
C22_PublicAccepted ==
    ( /\ ValidateReturned
      /\ call.allowed_domains = {}
      /\ urlparse(call.url).ok
      /\ CallScheme \in {"http:", "https:"}
      /\ CallHost \in PublicHosts )
    => call.valid

\* the part of C22 the code keeps: public names and public IPv4 addresses
C22_PublicNameOrIPv4Accepted ==
    ( /\ ValidateReturned
      /\ call.allowed_domains = {}
      /\ CallScheme \in {"http:", "https:"}
      /\ CallHost \in PublicHosts \ IPv6Hosts )
    => call.valid

\* C23: validate_url returns false for malformed input: a string with no
\* scheme, or an http or https URL with an empty or missing host.
C23_MalformedRejected ==
    ( /\ ValidateReturned
      /\ \/ CallScheme = ""
         \/ CallScheme \in {"http:", "https:"} /\ CallHost = "" )
    => ~call.valid

\* the part of C23 the code keeps: a string with no scheme, or with an
\* unmatched bracket in its authority, is refused
C23_NoSchemeRejected ==
    ( /\ ValidateReturned
      /\ \/ CallScheme = ""
         \/ ~urlparse(call.url).ok )
    => ~call.valid

(***************************************************************************)
(* The crawl loop and the rate limiter (Spec).                             *)
(***************************************************************************)
\* C24: after each URL that was marked visited, whether its fetch succeeded
\* or failed, the rate limiter is invoked for that URL before the next URL of
\* the level, unless len(visited) has reached max_pages.
C24_ThrottledAfterEveryVisit ==
    [][ ( /\ ev'.op \in {"fetch_ok", "fetch_none"}
          /\ Cardinality(visited') < max_pages )
        => throttled' = Append(throttled, ev'.url) ]_vars

\* the part of C24 the code keeps: the rate limiter is invoked after each
\* URL whose page was fetched and whose links were extracted
C24_ThrottledAfterSuccess ==
    [][ ( /\ ev'.op = "fetch_ok"
          /\ Cardinality(visited') < max_pages )
        => throttled' = Append(throttled, ev'.url) ]_vars

(***************************************************************************)
(* The crawl loop in time (PacedSpec).                                     *)
(***************************************************************************)
\* C25: in a crawl with delay > 0, two consecutive page fetches to the same
\* domain start at least delay apart, the first and second fetch included.
C25_FetchStartsApart ==
    ( /\ call.op = "crawl"
      /\ call.prev_start # 0 )
    => call.last_start - call.prev_start >= call.delay

\* what the code keeps of C25: two successive returns of the rate limiter in
\* a crawl are at least delay apart
C25_LimiterReturnsApart ==
    [][ \A d \in RateDomains :
           ( /\ call.op = "crawl"
             /\ obs'.op = "complete"
             /\ obs.completed[d] # 0
             /\ obs'.completed[d] # obs.completed[d] )
           => obs'.completed[d] - obs.completed[d] >= call.delay ]_vars

(***************************************************************************)
(* The order of the crawl (Spec).                                          *)
(***************************************************************************)
\* a step that fetches a page
FetchStep == fetched' # fetched

\* C26: crawl processes URLs strictly level by level.  A fetch is of the
\* next URL of the current level, whose depth is at most max_depth, and while
\* a level is processed no deeper level is queued; within a level the URLs
\* are taken one by one, each processed or skipped; the depth advances by
\* one, only when every URL of the level was processed or skipped; a level is
\* processed only if some URL was queued for it during the previous level,
\* and otherwise the crawl ends.
C26_LevelByLevel ==
    [][ /\ FetchStep =>
              /\ pc = "url"
              /\ depth \in 0..max_depth
              /\ DOMAIN urls_by_depth = 0..depth
              /\ idx \in 1..Len(urls_by_depth[depth])
              /\ fetched' = Append(fetched, urls_by_depth[depth][idx])
              /\ depth' = depth
        /\ idx' # idx =>
              \/ idx' = 1 /\ ev'.op = "level_start"
              \/ /\ idx' = idx + 1
                 /\ ev'.op \in {"skip_visited", "skip_robots", "fetch_none", "fetch_ok"}
                 /\ ev'.url = urls_by_depth[depth][idx]
        /\ depth' # depth =>
              /\ depth' = depth + 1
              /\ idx > Len(urls_by_depth[depth])
              /\ ev.op = "urls_exhausted"
        /\ urls_by_depth' # urls_by_depth =>
              /\ ev.op \in {"urls_exhausted", "cap_break"}
              /\ next_urls # <<>>
              /\ DOMAIN urls_by_depth' = DOMAIN urls_by_depth \cup {depth + 1}
              /\ urls_by_depth'[depth + 1] = next_urls
              /\ \A d \in DOMAIN urls_by_depth : d <= depth
              /\ \A d \in DOMAIN urls_by_depth : urls_by_depth'[d] = urls_by_depth[d]
        /\ ev'.op = "level_start" =>
              /\ depth \in DOMAIN urls_by_depth
              /\ urls_by_depth[depth] # <<>>
        /\ (pc = "level" /\ depth \notin DOMAIN urls_by_depth /\ pc' # pc) =>
              pc' = "done"
      ]_vars

\* witness of C26: a URL of level 1 was fetched, after level 0 was done
C26_Witness ==
    /\ depth = 1
    /\ pc = "url"
    /\ ev.op = "fetch_ok"
    /\ ev.url # start_url
    /\ Len(fetched) >= 2

\* the bounds crawl declares: every level 0..max_depth was processed, no URL
\* was queued for the next level, or len(visited) >= max_pages
AtDeclaredBound ==
    \/ depth > max_depth
    \/ depth \notin DOMAIN urls_by_depth
    \/ Cardinality(visited) >= max_pages

\* C27: whenever crawl ends, it is at one of its declared bounds; no failure
\* in the fetch client, the robots cache or the rate limiter ends the loop in
\* any other way.
C27_EndsOnlyAtBounds == pc \in {"done", "raised"} => AtDeclaredBound

\* the part of C27 the code keeps: when crawl returns (rather than raises),
\* it is at one of its declared bounds
C27_ReturnsOnlyAtBounds == pc = "done" => AtDeclaredBound

\* C28: once len(visited) has reached max_pages no URL is appended to any
\* frontier level: a link is appended to next_urls only by the step that
\* fetched its page, only if it is not in visited and len(visited) <
\* max_pages at that time, and a new level is the next_urls list as it stands.
C28_NoEnqueueOnceFull ==
    [][ /\ next_urls' # next_urls =>
              \/ ev'.op = "level_start" /\ next_urls' = <<>>
              \/ /\ ev'.op = "fetch_ok"
                 /\ Len(next_urls') > Len(next_urls)
                 /\ SubSeq(next_urls', 1, Len(next_urls)) = next_urls
                 /\ \A i \in 1..Len(Appended) :
                       /\ Appended[i] \notin visited'
                       /\ Cardinality(visited') < max_pages
        /\ Cardinality(visited) >= max_pages =>
              /\ next_urls' = next_urls
              /\ \A d \in DOMAIN urls_by_depth' :
                    \/ d \in DOMAIN urls_by_depth /\ urls_by_depth'[d] = urls_by_depth[d]
                    \/ d \notin DOMAIN urls_by_depth /\ urls_by_depth'[d] = next_urls
      ]_vars

\* witness of C28: the cap was reached by a page fetched while links admitted
\* earlier in the level were queued
C28_Witness ==
    /\ ev.op = "fetch_ok"
    /\ max_pages >= 2
    /\ Cardinality(visited) = max_pages
    /\ next_urls # <<>>
    /\ \A i \in 1..Len(next_urls) : next_urls[i] \notin (visited \ {ev.url})

(***************************************************************************)
(* The waits of fetch_with_retry (FetchSpec).                              *)
(***************************************************************************)
\* the number (0-based) of the attempt whose request is entry i of the log
AttemptAt(log, i) == Cardinality({j \in 1..(i - 1) : log[j].e = "get"})

\* twice the wait the specification gives after failed attempt n
TwiceWait(o, backoff, n) ==
    IF o.k = "timeout" THEN backoff * (2 ^ n) ELSE 2 * backoff * (2 ^ n)

\* C29: in fetch_with_retry, after failed attempt number n (0-based) with
\* n < max_retries - 1 the wait before the next attempt is backoff * 2^n for
\* an HTTP error and half of that for a timeout; there is no wait after the
\* final failed attempt and none after a success.
C29_BackoffWaits ==
    ( /\ call.op = "fetch_with_retry"
      /\ call.kind # "pending" )
    => \A i \in 1..Len(call.log) :
          LET n == AttemptAt(call.log, i)
              o == call.outs[n + 1]
          IN  /\ call.log[i].e = "get" =>
                    IF Failed(o) /\ n < call.max_retries - 1
                    THEN \* the wait, and then the next attempt
                         /\ i + 2 <= Len(call.log)
                         /\ call.log[i + 1].e = "sleep"
                         /\ call.log[i + 1].n = TwiceWait(o, call.backoff, n)
                         /\ call.log[i + 2].e = "get"
                    ELSE \* nothing follows the last attempt
                         i = Len(call.log)
              /\ call.log[i].e = "sleep" => i > 1 /\ call.log[i - 1].e = "get"

\* witness of C29: a timeout, an HTTP error and a third failure with
\* backoff 2: waits of 1 and 4, none after the third attempt
C29_Witness ==
    /\ call.op = "fetch_with_retry"
    /\ call.kind = "none"
    /\ call.max_retries = 3
    /\ call.backoff = 2
    /\ call.outs[1] = Timeout
    /\ call.outs[2] = HTTPError
    /\ call.outs[3] = Timeout
    /\ Len(call.log) = 6
    /\ call.log[3] = LogSleep(call.url, 2)
    /\ call.log[5] = LogSleep(call.url, 8)
    /\ call.log[6].e = "get"

(***************************************************************************)
(* The scope of a Disallow line (RulesSpec).                               *)
(***************************************************************************)
IsBlankOrComment(line) == line = <<>> \/ Head(line) = "#"

\* a User-agent line whose agent is the requested agent (in any case) or "*"
OpensScope(line, user_agent) ==
    /\ IsUserAgentLine(line)
    /\ Len(line) > 1
    /\ Lower(line[2]) \in {Lower(user_agent), "*"}

\* line i of the text is a Disallow line with a path, under a matching
\* User-agent line with nothing between them but blank lines, comments and
\* Disallow lines
InScopeDisallow(text, user_agent, i) ==
    /\ IsDisallowLine(text[i])
    /\ Tail(text[i]) # <<>>
    /\ \E j \in 1..(i - 1) :
          /\ OpensScope(text[j], user_agent)
          /\ \A k \in (j + 1)..(i - 1) :
                IsBlankOrComment(text[k]) \/ IsDisallowLine(text[k])

\* C30: a Disallow line adds its path to the rule set only while a matching
\* User-agent group is in scope: a User-agent line sets the scope by whether
\* its agent is the requested agent or "*", any other directive closes the
\* scope until the next matching User-agent line, and comment and blank
\* lines do not change it.
C30_ScopedDisallow ==
    (call.op = "robots_rules" /\ call.kind = "done") =>
       call.disallowed_paths =
          {Tail(call.robots_content[i]) :
              i \in {k \in 1..Len(call.robots_content) :
                        InScopeDisallow(call.robots_content, call.user_agent, k)}}

\* witness of C30: 'User-agent: *', 'Allow: /', 'Disallow: /a' gives no rule,
\* and /a is allowed
C30_Witness ==
    /\ call.op = "robots_rules"
    /\ call.kind = "done"
    /\ call.robots_content =
          <<UserAgentLine("*"), <<"Allow:", "/">>, DisallowLine(<<"/", "a">>)>>
    /\ robots_path(call.url) = <<"/", "a">>
    /\ call.disallowed_paths = {}
    /\ call.allowed

(***************************************************************************)
(* The matching of a path against a disallow pattern (MatchSpec).          *)
(***************************************************************************)
\* the path has a prefix that is the pattern, each "*" standing for any run
\* of characters and every other character for itself
RECURSIVE WildcardPrefix(_, _)
WildcardPrefix(pattern, path) ==
    IF pattern = <<>> THEN TRUE
    ELSE IF Head(pattern) = "*"
    THEN \E k \in 0..Len(path) :
            WildcardPrefix(Tail(pattern), SubSeq(path, k + 1, Len(path)))
    ELSE /\ path # <<>>
         /\ Head(pattern) = Head(path)
         /\ WildcardPrefix(Tail(pattern), Tail(path))

\* the matching rule as the specification states it
MatchesAsSpecified(path, pattern) ==
    IF pattern = <<>> THEN FALSE
    ELSE IF pattern[Len(pattern)] = "$"
    THEN path = SubSeq(pattern, 1, Len(pattern) - 1)
    ELSE IF "*" \in Range(pattern)
    THEN WildcardPrefix(pattern, path)
    ELSE \E k \in 0..Len(path) : SubSeq(path, 1, k) = pattern

MatchReturned == call.op = "matches" /\ call.kind = "returned"

\* C31: a pattern ending in "$" matches only the path equal to the pattern
\* without the "$"; otherwise a pattern containing "*" matches when the path
\* has a prefix matching the pattern with each "*" standing for any run of
\* characters; otherwise the pattern matches when it is a prefix of the path;
\* the empty pattern matches nothing.
C31_MatchesAsSpecified ==
    MatchReturned => (call.matches <=> MatchesAsSpecified(call.path, call.pattern))

\* the part of C31 the code keeps: patterns in which "*" is the only
\* character the regular expression reads specially
C31_MatchesWithoutMetacharacters ==
    ( /\ MatchReturned
      /\ "." \notin Range(call.pattern)
      /\ "$" \notin Range(SubSeq(call.pattern, 1, Len(call.pattern) - 1)) )
    => (call.matches <=> MatchesAsSpecified(call.path, call.pattern))

(***************************************************************************)
(* The cleanups (CleanupSpec).                                             *)
(***************************************************************************)
CleanupReturned ==
    call.op \in {"_cleanup_robots_cache", "_cleanup_rate_limit_dict"}
    /\ call.kind = "returned"

\* the table the cleanup ran on as it is now, its TTL and its cap
TableAfter ==
    IF call.op = "_cleanup_robots_cache" THEN _robots_cache ELSE _domain_last_request
TableTTL ==
    IF call.op = "_cleanup_robots_cache" THEN ROBOTS_CACHE_TTL ELSE RATE_LIMIT_TTL
TableCap ==
    IF call.op = "_cleanup_robots_cache" THEN ROBOTS_CACHE_MAX_SIZE
    ELSE RATE_LIMIT_MAX_DOMAINS

EntriesOf(table) == {table[i] : i \in 1..Len(table)}

OlderThanTTL(e) == clock - e.ts > TableTTL

\* C32: a cleanup first removes every entry older than the TTL and then, if
\* the table is still over the cap, the entries of lowest timestamp until
\* exactly cap entries remain: afterwards no entry is older than the TTL, the
\* size is at most the cap, and no removed unexpired entry is newer than a
\* retained one (nothing unexpired is removed from a table within the cap).
C32_CleanupPolicy ==
    CleanupReturned =>
       LET before    == EntriesOf(call.table)
           after     == EntriesOf(TableAfter)
           unexpired == {e \in before : ~OlderThanTTL(e)}
       IN  /\ after \subseteq unexpired
           /\ \A e \in after : ~OlderThanTTL(e)
           /\ Len(TableAfter) <= TableCap
           /\ Len(TableAfter) = Cardinality(after)
           /\ Cardinality(after) = IF Cardinality(unexpired) > TableCap
                                   THEN TableCap ELSE Cardinality(unexpired)
           /\ \A r \in unexpired \ after : \A k \in after : r.ts <= k.ts

\* witness of C32: a table with an entry older than the TTL and more than cap
\* younger ones, of which an older one went and newer ones stayed
C32_Witness ==
    /\ CleanupReturned
    /\ \E e \in EntriesOf(call.table) : OlderThanTTL(e)
    /\ Cardinality({e \in EntriesOf(call.table) : ~OlderThanTTL(e)}) > TableCap
    /\ Len(TableAfter) = TableCap
    /\ \E r \in EntriesOf(call.table) \ EntriesOf(TableAfter) :
          /\ ~OlderThanTTL(r)
          /\ \A k \in EntriesOf(TableAfter) : r.ts < k.ts

(***************************************************************************)
(* The age of the cached rule sets (RobotsSpec).                           *)
(***************************************************************************)
\* the step is the lookup of a call (lines 306-324)
LookupStep == obs'.op \in {"hit", "miss", "expired"}

\* the entries the cache holds for a domain
EntriesFor(cache, domain) == {i \in 1..Len(cache) : cache[i].domain = domain}

OneRuleSetPerDomain ==
    \A i, j \in 1..Len(_robots_cache) :
        _robots_cache[i].domain = _robots_cache[j].domain => i = j

\* C33: is_allowed_by_robots never answers from a cached rule set whose age
\* has reached ROBOTS_CACHE_TTL: a call that finds such an entry for its
\* domain removes it and goes on to fetch robots.txt; and the cache holds at
\* most one rule set per domain at any time.
C33_ExpiredEntryAbsent ==
    /\ []OneRuleSetPerDomain
    /\ [][ LookupStep =>
             LET domain == DomainOf(obs'.url)
                 found  == EntriesFor(_robots_cache, domain)
             IN  /\ obs'.op = "hit" =>
                       \E i \in found :
                          /\ clock - _robots_cache[i].ts < ROBOTS_CACHE_TTL
                          /\ obs'.allowed = path_allowed(robots_path(obs'.url),
                                                         _robots_cache[i].rules)
                 /\ (\E i \in found : clock - _robots_cache[i].ts >= ROBOTS_CACHE_TTL) =>
                       /\ obs'.op # "hit"
                       /\ EntriesFor(_robots_cache', domain) = {}
                       /\ threads'[obs'.thread].pc = "r_fetch"
                       /\ threads'[obs'.thread].url = obs'.url
         ]_vars

\* witness of C33: a call found an entry of its domain that had reached the
\* TTL; the entry is gone and the call is about to fetch robots.txt
C33_Witness ==
    /\ obs.op = "expired"
    /\ EntriesFor(_robots_cache, DomainOf(obs.url)) = {}
    /\ threads[obs.thread].pc = "r_fetch"
    /\ _robots_cache # NoTable

\* the step is the write of a freshly computed rule set (lines 357-358)
WriteStep ==
    /\ obs'.op \in {"fetched", "fetch_none"}
    /\ threads[obs'.thread].pc = "r_fetch"

\* C34: the timestamp stored with a freshly computed rule set is the time of
\* the write, after the robots.txt fetch has completed: a newly written
\* entry has age zero however long the fetch took.
C34_StampedAtWrite ==
    [][ WriteStep =>
           Lookup(_robots_cache', DomainOf(obs'.url)).ts = clock' ]_vars

\* what the code does instead: the timestamp stored is the time read at the
\* lookup, before the fetch
C34_StampedAtLookup ==
    [][ WriteStep =>
           Lookup(_robots_cache', DomainOf(obs'.url)).ts = threads[obs'.thread].now ]_vars

(***************************************************************************)
(* get_client against close (ClientSpec).                                  *)
(***************************************************************************)
\* C40: get_client never returns None, also when close() runs between
\* get_client's unlocked check of the shared client and its return.
C40_NeverReturnsNone == NoClient \notin obs.returned

\* the part of C40 the code keeps: while close() is not called, get_client
\* returns a client
C40_ReturnsClientWithoutClose ==
    obs.close_calls = 0 => NoClient \notin obs.returned

(***************************************************************************)
(* The locks (LockSpec).                                                   *)
(***************************************************************************)
\* the locks thread t holds
Held(t) ==
    {l \in {"client", "robots", "rate"} :
        \/ l = "client" /\ _client_lock = t
        \/ l = "robots" /\ _robots_cache_lock = t
        \/ l = "rate" /\ _domain_lock = t}

\* the lock thread t is about to take ("" when it is not at a lock)
Awaited(t) ==
    IF \E f \in ClientFrames : At(t, f.lock) \/ At(t, "cl.lock") THEN "client"
    ELSE IF \E f \in RobotsFrames : At(t, f.lock1) \/ At(t, f.lock2) THEN "robots"
    ELSE IF \E f \in RateFrames : At(t, f.lock) THEN "rate"
    ELSE ""

\* C35: no thread ever holds two of the three locks at the same time, and no
\* interleaving of the calls deadlocks: every thread can take a step, or
\* waits for a lock whose holder can take a step.
C35_OneLockNoDeadlock ==
    \A t \in Threads :
        /\ Cardinality(Held(t)) <= 1
        /\ \/ ENABLED LockStep(t)
           \/ \E h \in Threads \ {t} :
                 /\ Awaited(t) \in Held(h)
                 /\ ENABLED LockStep(h)

\* witness of C35: a thread inside is_allowed_by_robots waits for the
\* robots-cache lock that a second thread holds, while a third holds the
\* rate-limit lock
C35_Witness ==
    /\ At("t1", "ia.lock2")
    /\ _robots_cache_lock = "t2"
    /\ _domain_lock = "t3"
    /\ ~ENABLED LockStep("t1")

(***************************************************************************)
(* The authority of the URLs of a crawl (Spec).                            *)
(***************************************************************************)
\* the URLs queued at any level, or for the next one
Frontier ==
    UNION {Range(urls_by_depth[d]) : d \in DOMAIN urls_by_depth} \cup Range(next_urls)

\* C36: in every reachable state of crawl, every URL in visited and every
\* URL in any frontier level has the authority of start_url.
C36_OneAuthority ==
    \A url \in visited \cup Frontier :
        urlparse(url).netloc = urlparse(start_url).netloc

\* witness of C36: pages other than the start page were visited and queued
C36_Witness ==
    /\ Cardinality(visited) >= 2
    /\ depth >= 1
    /\ next_urls # <<>>
    /\ \E url \in Range(next_urls) : url \notin visited /\ url # start_url

(***************************************************************************)
(* Concurrent misses for one domain (RobotsSpec).                          *)
(***************************************************************************)
\* C39: under concurrent misses for the same domain the cached timestamp of
\* that domain never decreases: a lookup that started earlier and finished
\* later never overwrites the entry written by a lookup that started later.
C39_TimestampNeverDecreases ==
    [][ \A domain \in Domains(_robots_cache) \cap Domains(_robots_cache') :
           Lookup(_robots_cache', domain).ts >= Lookup(_robots_cache, domain).ts ]_vars

\* the part of C39 the code keeps: a write never stamps an entry later than
\* the time of its own lookup, and a lookup leaves the timestamps alone
C39_StampOfOwnLookup ==
    [][ \A domain \in Domains(_robots_cache) \cap Domains(_robots_cache') :
           \/ Lookup(_robots_cache', domain).ts = Lookup(_robots_cache, domain).ts
           \/ /\ WriteStep
              /\ domain = DomainOf(obs'.url)
              /\ Lookup(_robots_cache', domain).ts = threads[obs'.thread].now ]_vars

(***************************************************************************)
(* The cached rule set and the user agent (AgentSpec).                     *)
(***************************************************************************)
\* what a fresh fetch and parse of the site's robots.txt answers
FreshAnswer(url, user_agent) ==
    path_allowed(robots_path(url),
                 IF call.robots_content # <<>>
                 THEN parse_robots(call.robots_content, user_agent)
                 ELSE {})

\* the step answers a call from a live cache entry
HitStep == obs'.op = "hit"

\* C38: is_allowed_by_robots(url, ua) answered from a live cache entry equals
\* what a fresh fetch and parse of the same robots.txt for the same ua would
\* return, also when the entry was created by an earlier call for that
\* domain with a different user agent.
C38_CachedEqualsFresh ==
    [][ HitStep => obs'.allowed = FreshAnswer(obs'.url, obs'.user_agent) ]_vars

\* the part of C38 the code keeps: the cached answer is the fresh one when
\* the entry was written by a call with the same user agent, letter case
\* aside
C38_CachedEqualsFreshForSameAgent ==
    [][ HitStep /\ Lower(obs'.user_agent) = Lower(obs'.made_by)
           => obs'.allowed = FreshAnswer(obs'.url, obs'.user_agent) ]_vars

(***************************************************************************)
(* The pages a crawl returns (SiteSpec).                                   *)
(***************************************************************************)
\* the page the site served for url (no link when it was never requested)
PageOf(url) ==
    IF \E i \in 1..Len(call.site) : call.site[i].url = url
    THEN call.site[CHOOSE i \in 1..Len(call.site) : call.site[i].url = url].html
    ELSE <<>>

\* the URLs one same-authority link hop away from url
LinksOf(url) ==
    {link \in {normalize_url(href, url) : href \in Range(PageOf(url)) \ {<<>>}} :
        urlparse(link).netloc = urlparse(start_url).netloc}

\* the URLs within k same-authority link hops of start_url
RECURSIVE WithinHops(_)
WithinHops(k) ==
    IF k = 0 THEN {start_url}
    ELSE LET near == WithinHops(k - 1)
         IN  near \cup UNION {LinksOf(url) : url \in near}

\* crawl has ended, by a return or by an exception
CrawlEnded == pc \in {"done", "raised"}

\* C37: if every fetch succeeds, robots allows every URL, and the set of
\* URLs reachable from start_url within max_depth same-authority link hops
\* has fewer than max_pages members, crawl returns exactly that reachable
\* set.
C37_ReturnsReachableSet ==
    CrawlEnded /\ Cardinality(WithinHops(max_depth)) < max_pages
        => pc = "done" /\ visited = WithinHops(max_depth)

\* the part of C37 the code keeps: when crawl returns, it returns that set
C37_ReachableSetWhenReturned ==
    pc = "done" /\ Cardinality(WithinHops(max_depth)) < max_pages
        => visited = WithinHops(max_depth)

\* a crawl of C37_ReachableSetWhenReturned that went beyond the start page
C37_Returned ==
    /\ pc = "done"
    /\ Cardinality(WithinHops(max_depth)) < max_pages
    /\ Cardinality(visited) >= 2

=============================================================================
